---------------------------- MODULE Spec2Model ----------------------------
(***************************************************************************)
(* Buy-Prime-Labels backend: the retrying remote call executor            *)
(* (amazonClient.js), the ZPL validator and injector, and the order store *)
(* as written by the sync and label purchase handlers (config.js).        *)
(*                                                                         *)
(* Text (error messages, label markup) is a sequence of one-character     *)
(* strings, so that indexOf / includes / slice are computed, not assumed. *)
(***************************************************************************)
EXTENDS Integers, Sequences, FiniteSets, TLC

\* ------------------------------------------------------------------------
\* Text helpers (String.prototype.includes / toLowerCase on char sequences)
\* ------------------------------------------------------------------------

\* s.startsWith(pat, i) with 1-based i
MatchAt(s, pat, i) ==
  /\ i >= 1
  /\ i + Len(pat) - 1 <= Len(s)
  /\ \A k \in 1..Len(pat) : s[i + k - 1] = pat[k]

\* s.includes(pat)
Includes(s, pat) ==
  \E i \in 1..(Len(s) + 1) : MatchAt(s, pat, i)

LowerChar(c) ==
  CASE c = "T" -> "t"
    [] c = "Q" -> "q"
    [] c = "E" -> "e"
    [] c = "R" -> "r"
    [] c = "B" -> "b"
    [] OTHER -> c

\* s.toLowerCase()
ToLowerCase(s) == [i \in 1..Len(s) |-> LowerChar(s[i])]

\* ------------------------------------------------------------------------
\* State
\* ------------------------------------------------------------------------

VARIABLES
  rPc,          \* retryWithBackoff: "call" | "sleep" | "returned" | "thrown"
  rMaxRetries,  \* the maxRetries option
  attempt,      \* retryWithBackoff: attempt
  lastError,    \* retryWithBackoff: lastError (<<>> while unset)
  rOutcomes,    \* what each invocation of fn did, in order
  rRetryable,   \* isRetryableError(error) as evaluated for each failure
  rEvents,      \* the 'Retrying Amazon SP-API call' events logged
  rSlept,       \* the delays waited, in order
  rResult,      \* <<>> | <<"ok">> | <<"error", e>>
  orders,       \* table orders, committed rows: [stored ids -> row]
  defaults,     \* table product_shipping_defaults: [skus -> row]
  sync,         \* the sync handler: [pc, orders, idx, inserted, updated, resp]
  tx,           \* its open transaction: [writes, locks]
  syncBase,     \* the committed rows as they would be without this sync
  buy,          \* the buy-label handler
  bulk,         \* the bulk-buy-labels handler
  zplCall,      \* calls of validateZpl / injectSkuToZpl on one markup
  labelCall,    \* a call of buyLabel: [pc, services, shipment, ...]
  reprint       \* the reprint / bulk-reprint handler

retryVars == <<rPc, rMaxRetries, attempt, lastError, rOutcomes, rRetryable,
               rEvents, rSlept, rResult>>
dbVars == <<orders, defaults>>
syncVars == <<sync, tx, syncBase>>
storeVars == <<dbVars, syncVars, buy, bulk, reprint>>
libVars == <<retryVars, zplCall, labelCall>>
vars == <<retryVars, storeVars, zplCall, labelCall>>

\* ------------------------------------------------------------------------
\* Remote errors
\* ------------------------------------------------------------------------

\* an absent (undefined / null) numeric field; HTTP statuses are >= 0
NoStatus == -1
\* an absent (undefined) error code
NoCode == "undefined"

QUOTA_TEXT == <<"Q","u","o","t","a","E","x","c","e","e","d","e","d">>
TIMEOUT_TEXT == <<"t","i","m","e","o","u","t">>

MsgBadRequest == <<"B","a","d">>
MsgQuota == <<"4","2","9",":"," ">> \o QUOTA_TEXT
MsgTimeout == <<"R","e","a","d"," ","T","i","m","e","o","u","t">>
MsgRefused == <<"r","e","f","u","s","e","d">>

RETRYABLE_ERROR_CODES ==
  {"QuotaExceeded", "ETIMEDOUT", "ESOCKETTIMEDOUT", "ECONNRESET",
   "ECONNREFUSED", "EAI_AGAIN", "ENOTFOUND", "ECONNABORTED", "ENETUNREACH"}

\* the network subset of RETRYABLE_ERROR_CODES
NETWORK_ERROR_CODES == RETRYABLE_ERROR_CODES \ {"QuotaExceeded"}

ErrorShape(sc, rs, st, c, nc, m) ==
  [statusCode |-> sc, responseStatus |-> rs, status |-> st,
   code |-> c, nestedCode |-> nc, message |-> m]

\* The error shapes an operation may raise: an HTTP status in each of its
\* three locations, below and above 400, alone and together with quota or
\* network signals; codes inside and outside the retryable set; the quota
\* signal in code, nested code and message; a timeout message.
ErrorShapes ==
  { ErrorShape(400, NoStatus, NoStatus, NoCode, NoCode, MsgBadRequest),
    ErrorShape(503, NoStatus, NoStatus, NoCode, NoCode, MsgBadRequest),
    ErrorShape(429, NoStatus, NoStatus, "QuotaExceeded", NoCode, MsgQuota),
    ErrorShape(500, NoStatus, NoStatus, "ECONNRESET", NoCode, MsgTimeout),
    ErrorShape(NoStatus, NoStatus, NoStatus, NoCode, NoCode, MsgRefused),
    ErrorShape(NoStatus, NoStatus, NoStatus, "EPIPE", NoCode, MsgRefused),
    ErrorShape(NoStatus, NoStatus, NoStatus, "ETIMEDOUT", NoCode, MsgRefused),
    ErrorShape(NoStatus, NoStatus, NoStatus, "QuotaExceeded", NoCode, MsgRefused),
    ErrorShape(NoStatus, NoStatus, NoStatus, NoCode, "QuotaExceeded", MsgBadRequest),
    ErrorShape(NoStatus, NoStatus, NoStatus, NoCode, "InvalidInput", MsgQuota),
    ErrorShape(NoStatus, NoStatus, NoStatus, NoCode, NoCode, MsgTimeout),
    ErrorShape(NoStatus, 503, NoStatus, NoCode, NoCode, MsgBadRequest),
    ErrorShape(NoStatus, NoStatus, 404, NoCode, "QuotaExceeded", MsgQuota),
    ErrorShape(200, 503, 503, "EPIPE", NoCode, MsgBadRequest),
    ErrorShape(NoStatus, NoStatus, 0, "ECONNRESET", NoCode, MsgRefused),
    ErrorShape(503, 400, 400, "EPIPE", "InvalidInput", MsgBadRequest) }

\* error?.statusCode ?? error?.response?.status ?? error?.status ?? null
getErrorStatus(error) ==
  IF error.statusCode # NoStatus THEN error.statusCode
  ELSE IF error.responseStatus # NoStatus THEN error.responseStatus
  ELSE error.status

hasQuotaExceeded(error) ==
  \/ error.code = "QuotaExceeded"
  \/ error.nestedCode = "QuotaExceeded"
  \/ Includes(error.message, QUOTA_TEXT)

\* variant: any error code counts as a network error
isNetworkTimeout_AnyCode(error) ==
  \/ error.code # NoCode
  \/ Includes(ToLowerCase(error.message), TIMEOUT_TEXT)

isNetworkTimeout(error) ==
  \/ (error.code # NoCode /\ error.code \in RETRYABLE_ERROR_CODES)
  \/ Includes(ToLowerCase(error.message), TIMEOUT_TEXT)

\* variant: the quota / network signals are consulted before the status
isRetryableError_SignalsFirst(error) ==
  LET status == getErrorStatus(error) IN
  IF hasQuotaExceeded(error) \/ isNetworkTimeout(error) THEN TRUE
  ELSE status = 503

\* variant: 429 is retried like 503
isRetryableError_Retry429(error) ==
  LET status == getErrorStatus(error) IN
  IF status = 503 \/ status = 429 THEN TRUE
  ELSE IF status # NoStatus /\ status # 0 /\ status >= 400 THEN FALSE
  ELSE hasQuotaExceeded(error) \/ isNetworkTimeout(error)

isRetryableError(error) ==
  LET status == getErrorStatus(error) IN
  IF status = 503 THEN TRUE
  ELSE IF status # NoStatus /\ status # 0 /\ status >= 400 THEN FALSE
  ELSE hasQuotaExceeded(error) \/ isNetworkTimeout(error)

\* ------------------------------------------------------------------------
\* retryWithBackoff
\* ------------------------------------------------------------------------

DefaultMaxRetries == 3
DefaultBaseDelayMs == 1000

\* maxRetries values a caller passes (all callers in the repository use the
\* default)
MaxRetriesOptions == {1, DefaultMaxRetries}

RECURSIVE Pow2(_)
\* Math.pow(2, n)
Pow2(n) == IF n = 0 THEN 1 ELSE 2 * Pow2(n - 1)

\* an error object: its shape and the invocation that created it
RaisedError(shape, n) == [shape |-> shape, raisedBy |-> n]

RetryInit ==
  /\ rPc = "call"
  /\ rMaxRetries \in MaxRetriesOptions
  /\ attempt = 0
  /\ lastError = <<>>
  /\ rOutcomes = <<>>
  /\ rRetryable = <<>>
  /\ rEvents = <<>>
  /\ rSlept = <<>>
  /\ rResult = <<>>

\* try { return await fn(); } : fn resolves
RetryCallOk ==
  /\ rPc = "call"
  /\ attempt <= rMaxRetries
  /\ rOutcomes' = Append(rOutcomes, <<"ok">>)
  /\ rResult' = <<"ok">>
  /\ rPc' = "returned"
  /\ UNCHANGED <<rMaxRetries, attempt, lastError, rRetryable, rEvents, rSlept>>
  /\ UNCHANGED <<storeVars, zplCall, labelCall>>

\* variant: the retry budget is exhausted one attempt early
ShouldRethrow_OffByOne(error, att, maxRetries) ==
  ~isRetryableError(error.shape) \/ att + 1 >= maxRetries

\* variant: only the exhausted budget ends the retries
ShouldRethrow_BudgetOnly(error, att, maxRetries) == att = maxRetries

\* the catch block's decision for this error
ShouldRethrow(error, att, maxRetries) ==
  ~isRetryableError(error.shape) \/ att = maxRetries

\* variant: linear instead of exponential backoff
BackoffDelay_Linear(att) == DefaultBaseDelayMs * (att + 1)

\* the delay before the next attempt
BackoffDelay(att) == DefaultBaseDelayMs * Pow2(att)

\* fn rejects: the catch block up to the throw or the logger.warn
RetryCallFail ==
  /\ rPc = "call"
  /\ attempt <= rMaxRetries
  /\ \E shape \in ErrorShapes :
       LET error == RaisedError(shape, Len(rOutcomes) + 1) IN
       /\ rOutcomes' = Append(rOutcomes, <<"error", error>>)
       /\ lastError' = <<error>>
       /\ rRetryable' = Append(rRetryable, isRetryableError(shape))
       /\ IF ShouldRethrow(error, attempt, rMaxRetries)
          THEN /\ rResult' = <<"error", error>>
               /\ rPc' = "thrown"
               /\ UNCHANGED rEvents
          ELSE /\ rEvents' = Append(rEvents,
                   [retryNumber |-> attempt + 1,
                    maxRetries |-> rMaxRetries,
                    delayMs |-> BackoffDelay(attempt),
                    error |-> error])
               /\ rPc' = "sleep"
               /\ UNCHANGED rResult
  /\ UNCHANGED <<rMaxRetries, attempt, rSlept>>
  /\ UNCHANGED <<storeVars, zplCall, labelCall>>

\* await setTimeout(delayMs); attempt += 1; the while test
RetrySleep ==
  /\ rPc = "sleep"
  /\ rSlept' = Append(rSlept, rEvents[Len(rEvents)].delayMs)
  /\ attempt' = attempt + 1
  /\ IF attempt + 1 <= rMaxRetries
     THEN rPc' = "call" /\ UNCHANGED rResult
     ELSE rPc' = "thrown" /\ rResult' = <<"error", lastError[1]>>
  /\ UNCHANGED <<rMaxRetries, lastError, rOutcomes, rRetryable, rEvents>>
  /\ UNCHANGED <<storeVars, zplCall, labelCall>>

RetryNext == RetryCallOk \/ RetryCallFail \/ RetrySleep


\* ------------------------------------------------------------------------
\* ZPL label markup: validateZpl and injectSkuToZpl (config.js)
\* ------------------------------------------------------------------------

ZPL_INJECT_BOX_WIDTH == 700
ZPL_INJECT_BOX_HEIGHT == 60
ZPL_MAX_SKU_LENGTH == 20
\* config defaults (parseNonNegativeInt(process.env.ZPL_INJECT_X, 50) ...)
ZPL_INJECT_X == 50
ZPL_INJECT_Y == 1100

\* null for a number the label does not declare / an override not given
NoNumber == -1

XA == <<"^","X","A">>
XZ == <<"^","X","Z">>
Newline == <<"\n">>

IsSpace(c) == c \in {" ", "\n", "\t", "\r"}
Digits == <<"0","1","2","3","4","5","6","7","8","9">>
IsDigit(c) == \E d \in 1..10 : Digits[d] = c
DigitValue(c) == (CHOOSE d \in 1..10 : Digits[d] = c) - 1

\* s.slice(from) / s.slice(from, to) with 0-based indexes inside 0..Len(s)
Slice(s, from, to) == SubSeq(s, from + 1, to)

\* s.trim()
Trim(s) ==
  IF \A i \in 1..Len(s) : IsSpace(s[i]) THEN <<>>
  ELSE LET first == CHOOSE i \in 1..Len(s) :
                      ~IsSpace(s[i]) /\ \A j \in 1..(i - 1) : IsSpace(s[j])
           last == CHOOSE i \in 1..Len(s) :
                      ~IsSpace(s[i]) /\ \A j \in (i + 1)..Len(s) : IsSpace(s[j])
       IN SubSeq(s, first, last)

\* the 0-based positions at which pat occurs in s
MatchPositions(s, pat) == {i \in 0..(Len(s) - Len(pat)) : MatchAt(s, pat, i + 1)}

\* s.indexOf(pat), -1 when absent
IndexOf(s, pat) ==
  LET ps == MatchPositions(s, pat) IN
  IF ps = {} THEN -1 ELSE CHOOSE i \in ps : \A j \in ps : i <= j

\* s.lastIndexOf(pat), -1 when absent
LastIndexOf(s, pat) ==
  LET ps == MatchPositions(s, pat) IN
  IF ps = {} THEN -1 ELSE CHOOSE i \in ps : \A j \in ps : i >= j

RECURSIVE CountFrom(_, _, _)
\* the pieces-minus-one of s.split(needle), scanning s from 0-based position
\* i: the leftmost occurrence at or after i, then on from its end
CountFrom(s, needle, i) ==
  LET ps == {p \in MatchPositions(s, needle) : p >= i} IN
  IF ps = {} THEN 0
  ELSE LET first == CHOOSE p \in ps : \A q \in ps : p <= q
       IN 1 + CountFrom(s, needle, first + Len(needle))

\* haystack.split(needle).length - 1
countOccurrences(haystack, needle) ==
  IF Len(needle) = 0 THEN 0 ELSE CountFrom(haystack, needle, 0)

UpperChar(c) ==
  CASE c = "p" -> "P"
    [] c = "w" -> "W"
    [] c = "l" -> "L"
    [] OTHER -> c

RECURSIVE DigitsValue(_, _, _)
\* the value of the maximal run of digits of s that starts at 1-based i
DigitsValue(s, i, acc) ==
  IF i <= Len(s) /\ IsDigit(s[i])
  THEN DigitsValue(s, i + 1, acc * 10 + DigitValue(s[i]))
  ELSE acc

\* zpl.match(/\^FIELD(\d+)/i) then parseInt; field is two upper-case letters
parseZplNumber(field, zpl) ==
  LET hits == {i \in 1..(Len(zpl) - 3) :
                 /\ zpl[i] = "^"
                 /\ UpperChar(zpl[i + 1]) = field[1]
                 /\ UpperChar(zpl[i + 2]) = field[2]
                 /\ IsDigit(zpl[i + 3])}
  IN IF hits = {} THEN NoNumber
     ELSE LET first == CHOOSE i \in hits : \A j \in hits : i <= j
          IN DigitsValue(zpl, first + 3, 0)

ERR_EMPTY == "ZPL payload is empty."
ERR_NO_XA == "Missing ^XA start marker."
ERR_NO_XZ == "Missing ^XZ end marker."
ERR_ORDER == "^XZ end marker appears before ^XA start marker."
WARN_MULTI_XA == "Multiple ^XA markers detected."
WARN_MULTI_XZ == "Multiple ^XZ markers detected."
WARN_TRAILING == "Trailing content detected after final ^XZ marker."
WARN_NO_PW == "Missing ^PW (print width) definition."
WARN_NO_LL == "Missing ^LL (label length) definition."

\* the elements of msgs whose condition holds, in order
PushIf(acc, cond, msg) == IF cond THEN Append(acc, msg) ELSE acc

\* variant: the end marker is not looked for
StructuralErrors_NoEndCheck(startIndex, endIndex) ==
  PushIf(<<>>, startIndex = -1, ERR_NO_XA)

\* variant: the checks are chained, only the first failure is pushed
StructuralErrors_FirstOnly(startIndex, endIndex) ==
  IF startIndex = -1 THEN <<ERR_NO_XA>>
  ELSE IF endIndex = -1 THEN <<ERR_NO_XZ>>
  ELSE IF endIndex < startIndex THEN <<ERR_ORDER>>
  ELSE <<>>

\* the three structural checks, each pushing its own error
StructuralErrors(startIndex, endIndex) ==
  LET e1 == PushIf(<<>>, startIndex = -1, ERR_NO_XA)
      e2 == PushIf(e1, endIndex = -1, ERR_NO_XZ)
  IN PushIf(e2, startIndex # -1 /\ endIndex # -1 /\ endIndex < startIndex, ERR_ORDER)

\* the five checks that push a warning
ZplWarnings(zplLength, endIndex, xaCount, xzCount, printWidth, labelLength) ==
  LET w1 == PushIf(<<>>, xaCount > 1, WARN_MULTI_XA)
      w2 == PushIf(w1, xzCount > 1, WARN_MULTI_XZ)
      w3 == PushIf(w2, endIndex # -1 /\ endIndex < zplLength - 2, WARN_TRAILING)
      w4 == PushIf(w3, printWidth = NoNumber, WARN_NO_PW)
  IN PushIf(w4, labelLength = NoNumber, WARN_NO_LL)

\* variant: a warning also clears ok
ZplOk_NoWarnings(errors, warnings) == Len(errors) = 0 /\ Len(warnings) = 0

\* ok: errors.length === 0
ZplOk(errors, warnings) == Len(errors) = 0

\* the object validateZpl returns after the checks
ZplReport(errors, warnings, startIndex, endIndex, printWidth, labelLength) ==
  [ok |-> ZplOk(errors, warnings), errors |-> errors, warnings |-> warnings,
   meta |-> [startIndex |-> startIndex, endIndex |-> endIndex,
             printWidth |-> printWidth, labelLength |-> labelLength]]

\* validateZpl past the empty check, with the two marker positions
ValidateMarkers(zpl, startIndex, endIndex, printWidth, labelLength) ==
  ZplReport(StructuralErrors(startIndex, endIndex),
            ZplWarnings(Len(zpl), endIndex, countOccurrences(zpl, XA),
                        countOccurrences(zpl, XZ), printWidth, labelLength),
            startIndex, endIndex, printWidth, labelLength)

validateZpl(zpl) ==
  IF Trim(zpl) = <<>>
  THEN [ok |-> FALSE, errors |-> <<ERR_EMPTY>>, warnings |-> <<>>,
        meta |-> [startIndex |-> -1, endIndex |-> -1,
                  printWidth |-> NoNumber, labelLength |-> NoNumber]]
  ELSE ValidateMarkers(zpl, IndexOf(zpl, XA), LastIndexOf(zpl, XZ),
                       parseZplNumber(<<"P", "W">>, zpl),
                       parseZplNumber(<<"L", "L">>, zpl))

\* coerceOverride for a numeric value (NoNumber: not given); a negative
\* number is discarded
coerceOverride(value) == IF value >= 0 THEN value ELSE NoNumber

UNKNOWN_SKU == <<"U","N","K","N","O","W","N">>
ELLIPSIS == <<".", ".", ".">>

\* variant: the value is cut to the maximum length, without the marker
truncateSku_NoEllipsis(skuText) ==
  IF Len(skuText) <= ZPL_MAX_SKU_LENGTH
  THEN [value |-> skuText, truncated |-> FALSE]
  ELSE [value |-> Slice(skuText, 0, ZPL_MAX_SKU_LENGTH), truncated |-> TRUE]

truncateSku(skuText) ==
  IF Len(skuText) <= ZPL_MAX_SKU_LENGTH
  THEN [value |-> skuText, truncated |-> FALSE]
  ELSE [value |-> Slice(skuText, 0, ZPL_MAX_SKU_LENGTH - 3) \o ELLIPSIS,
        truncated |-> TRUE]

RECURSIVE NumToStr(_)
\* `${n}` for an integer n >= 0
NumToStr(n) ==
  IF n < 10 THEN <<Digits[n + 1]>>
  ELSE NumToStr(n \div 10) \o <<Digits[(n % 10) + 1]>>

\* the two lines of the injection block, joined by a newline
InjectionBlock(injectX, injectY, safeSkuText, qtyText) ==
  <<"^","F","O">> \o NumToStr(injectX) \o <<",">> \o NumToStr(injectY)
    \o <<"^","G","B">> \o NumToStr(ZPL_INJECT_BOX_WIDTH) \o <<",">>
    \o NumToStr(ZPL_INJECT_BOX_HEIGHT) \o <<",","3","^","F","S">>
    \o Newline
    \o <<"^","F","O">> \o NumToStr(injectX) \o <<",">> \o NumToStr(injectY + 20)
    \o <<"^","A","0","N",",","3","0",",","3","0","^","F","D"," ","S","K","U",":"," ">> \o safeSkuText
    \o <<" "," ","Q","T","Y",":"," ">> \o NumToStr(qtyText) \o <<"^","F","S">>

ERR_NEGATIVE == "Injection coordinates must be non-negative."
ERR_WIDTH == "Injection exceeds label width"
ERR_LENGTH == "Injection exceeds label length"

\* errors.join(' ')
JoinErrors(errors) == errors

\* `Injection exceeds label ... (${max} > ${declared}).`
BoundsError(text, max, declared) == <<text, NumToStr(max), NumToStr(declared)>>

\* variant: the box may not touch the declared width
ExceedsWidth_Inclusive(injectX, printWidth) ==
  printWidth # NoNumber /\ injectX + ZPL_INJECT_BOX_WIDTH >= printWidth

\* printWidth !== null and maxX > printWidth
ExceedsWidth(injectX, printWidth) ==
  printWidth # NoNumber /\ injectX + ZPL_INJECT_BOX_WIDTH > printWidth

\* labelLength !== null and maxY > labelLength
ExceedsLength(injectY, labelLength) ==
  labelLength # NoNumber /\ injectY + ZPL_INJECT_BOX_HEIGHT > labelLength

\* variant: the tail of the markup is not appended
Splice_DropsTail(originalZpl, idx, injectionBlock) ==
  Slice(originalZpl, 0, idx) \o injectionBlock \o Newline

\* variant: the block overwrites the first character of the end marker
Splice_Overwrites(originalZpl, idx, injectionBlock) ==
  Slice(originalZpl, 0, idx) \o injectionBlock \o Newline
    \o Slice(originalZpl, idx + 1, Len(originalZpl))

\* variant: the block is put in front of the markup
Splice_InFront(originalZpl, idx, injectionBlock) ==
  injectionBlock \o Newline \o originalZpl

\* originalZpl.slice(0, idx) + injectionBlock + '\n' + originalZpl.slice(idx)
Splice(originalZpl, idx, injectionBlock) ==
  Slice(originalZpl, 0, idx) \o injectionBlock \o Newline
    \o Slice(originalZpl, idx, Len(originalZpl))

\* the result after the second validation
PostValidated(postValidation, originalZpl, modifiedZpl) ==
  IF ~postValidation.ok
  THEN [success |-> FALSE, zpl |-> originalZpl,
        error |-> JoinErrors(postValidation.errors)]
  ELSE [success |-> TRUE, zpl |-> modifiedZpl, error |-> <<>>]

\* validateZpl(modifiedZpl) and the result
InjectChecked(originalZpl, modifiedZpl) ==
  PostValidated(validateZpl(modifiedZpl), originalZpl, modifiedZpl)

\* variant: the dry run returns before the coordinate and bounds checks
InjectAt_DryRunFirst(meta, originalZpl, injectX, injectY, safeSkuText, qtyText, dryRun) ==
  IF dryRun
  THEN [success |-> TRUE, zpl |-> originalZpl, error |-> <<>>]
  ELSE IF injectX < 0 \/ injectY < 0
  THEN [success |-> FALSE, zpl |-> originalZpl, error |-> <<ERR_NEGATIVE>>]
  ELSE IF ExceedsWidth(injectX, meta.printWidth)
  THEN [success |-> FALSE, zpl |-> originalZpl,
        error |-> BoundsError(ERR_WIDTH, injectX + ZPL_INJECT_BOX_WIDTH, meta.printWidth)]
  ELSE IF ExceedsLength(injectY, meta.labelLength)
  THEN [success |-> FALSE, zpl |-> originalZpl,
        error |-> BoundsError(ERR_LENGTH, injectY + ZPL_INJECT_BOX_HEIGHT, meta.labelLength)]
  ELSE InjectChecked(originalZpl,
         Splice(originalZpl, meta.endIndex,
                InjectionBlock(injectX, injectY, safeSkuText, qtyText)))

\* variant: a label that declares no length is taken to be 1218 dots long
InjectAt_AssumedLength(meta, originalZpl, injectX, injectY, safeSkuText, qtyText, dryRun) ==
  IF injectX < 0 \/ injectY < 0
  THEN [success |-> FALSE, zpl |-> originalZpl, error |-> <<ERR_NEGATIVE>>]
  ELSE IF ExceedsWidth(injectX, meta.printWidth)
  THEN [success |-> FALSE, zpl |-> originalZpl,
        error |-> BoundsError(ERR_WIDTH, injectX + ZPL_INJECT_BOX_WIDTH, meta.printWidth)]
  ELSE IF ExceedsLength(injectY, IF meta.labelLength # NoNumber THEN meta.labelLength ELSE 1218)
  THEN [success |-> FALSE, zpl |-> originalZpl,
        error |-> BoundsError(ERR_LENGTH, injectY + ZPL_INJECT_BOX_HEIGHT,
                              IF meta.labelLength # NoNumber THEN meta.labelLength ELSE 1218)]
  ELSE IF dryRun
  THEN [success |-> TRUE, zpl |-> originalZpl, error |-> <<>>]
  ELSE InjectChecked(originalZpl,
         Splice(originalZpl, meta.endIndex,
                InjectionBlock(injectX, injectY, safeSkuText, qtyText)))

\* injectSkuToZpl from the coordinate check on
InjectAt(meta, originalZpl, injectX, injectY, safeSkuText, qtyText, dryRun) ==
  IF injectX < 0 \/ injectY < 0
  THEN [success |-> FALSE, zpl |-> originalZpl, error |-> <<ERR_NEGATIVE>>]
  ELSE IF ExceedsWidth(injectX, meta.printWidth)
  THEN [success |-> FALSE, zpl |-> originalZpl,
        error |-> BoundsError(ERR_WIDTH, injectX + ZPL_INJECT_BOX_WIDTH, meta.printWidth)]
  ELSE IF ExceedsLength(injectY, meta.labelLength)
  THEN [success |-> FALSE, zpl |-> originalZpl,
        error |-> BoundsError(ERR_LENGTH, injectY + ZPL_INJECT_BOX_HEIGHT, meta.labelLength)]
  ELSE IF dryRun
  THEN [success |-> TRUE, zpl |-> originalZpl, error |-> <<>>]
  ELSE InjectChecked(originalZpl,
         Splice(originalZpl, meta.endIndex,
                InjectionBlock(injectX, injectY, safeSkuText, qtyText)))

\* overrideX ?? ZPL_INJECT_X
ResolveCoordinate(override, configured) ==
  IF override # NoNumber THEN override ELSE configured

\* sku.trim() when sku is a non-blank string, else 'UNKNOWN'
SkuText(sku) == IF Trim(sku) # <<>> THEN Trim(sku) ELSE UNKNOWN_SKU

\* quantity when it is a finite number > 0, else 1
QtyText(quantity) == IF quantity > 0 THEN quantity ELSE 1

\* injectSkuToZpl after the first validation
InjectValidated(validation, originalZpl, sku, quantity, options) ==
  IF ~validation.ok
  THEN [success |-> FALSE, zpl |-> originalZpl, error |-> JoinErrors(validation.errors)]
  ELSE InjectAt(validation.meta, originalZpl,
                ResolveCoordinate(coerceOverride(options.x), ZPL_INJECT_X),
                ResolveCoordinate(coerceOverride(options.y), ZPL_INJECT_Y),
                truncateSku(SkuText(sku)).value, QtyText(quantity), options.dryRun)

\* injectSkuToZpl(originalZpl, sku, quantity, options); sku <<>> stands for
\* undefined or '', quantity 0 for undefined; options = [x, y, dryRun]
injectSkuToZpl(originalZpl, sku, quantity, options) ==
  InjectValidated(validateZpl(originalZpl), originalZpl, sku, quantity, options)

\* getZplInjectOptions(req.body): payload = [zpl_inject_x, zpl_inject_y,
\* zpl_inject_dry_run]
getZplInjectOptions(payload) ==
  [x |-> coerceOverride(payload.zpl_inject_x),
   y |-> coerceOverride(payload.zpl_inject_y),
   dryRun |-> payload.zpl_inject_dry_run = TRUE]


\* ------------------------------------------------------------------------
\* The order store and the sync handler (POST /api/sync-orders)
\* ------------------------------------------------------------------------

\* order ids are 1..NumOrderIds (they stand for the marketplace id strings)
NumOrderIds == 1
OrderIds == 1..NumOrderIds

NoTracking == "null"
NullZpl == <<>>

SkuA == <<"S","K","U","-","A">>
SkuB == <<"S","K","U","-","B">>

\* what the remote system may report for an order: two revisions of the
\* same order that differ in every field sync writes
RemoteRevisions == {1, 2}

\* one element of the list fetchUnshippedPrimeOrdersWithItems returns
FetchedOrder(id, rev) ==
  [amazon_order_id |-> id,
   purchase_date |-> rev,
   customer_name |-> IF rev = 1 THEN "Ann" ELSE "Bob",
   shipping_address |-> IF rev = 1 THEN "Via Roma 1" ELSE "Via Milano 2",
   items |-> IF rev = 1 THEN <<[sku |-> SkuA, quantity |-> 2]>>
             ELSE <<[sku |-> SkuA, quantity |-> 1], [sku |-> SkuB, quantity |-> 3]>>,
   is_prime |-> TRUE,
   status |-> "Unshipped"]

RECURSIVE SeqsUpTo(_, _)
\* the sequences of length <= n over S
SeqsUpTo(S, n) ==
  IF n = 0 THEN {<<>>}
  ELSE LET shorter == SeqsUpTo(S, n - 1) IN
       shorter \cup {Append(s, x) : s \in shorter, x \in S}

\* the lists a fetch may return over the given ids: each id at most once,
\* in any order, in any revision
FetchedLists(ids) ==
  LET idSeqs == {s \in SeqsUpTo(ids, Cardinality(ids)) :
                   \A i, j \in 1..Len(s) : i # j => s[i] # s[j]}
  IN UNION {{[i \in 1..Len(s) |-> FetchedOrder(s[i], revs[i])] :
               revs \in [1..Len(s) -> RemoteRevisions]} : s \in idSeqs}

\* the row sync inserts for a fetched order
InsertedRow(f) ==
  [purchase_date |-> f.purchase_date,
   customer_name |-> f.customer_name,
   shipping_address |-> f.shipping_address,
   items |-> f.items,
   is_prime |-> f.is_prime,
   status |-> f.status,
   tracking_id |-> NoTracking,
   label_zpl |-> NullZpl]

\* variant: the DO UPDATE forgets the items column
UpdatedRow_KeepsItems(row, f) ==
  [row EXCEPT !.purchase_date = f.purchase_date,
              !.customer_name = f.customer_name,
              !.shipping_address = f.shipping_address,
              !.is_prime = f.is_prime,
              !.status = f.status]

\* DO UPDATE SET ... = EXCLUDED. ...
UpdatedRow(row, f) ==
  [row EXCEPT !.purchase_date = f.purchase_date,
              !.customer_name = f.customer_name,
              !.shipping_address = f.shipping_address,
              !.items = f.items,
              !.is_prime = f.is_prime,
              !.status = f.status]

\* variant: the upsert has no WHERE clause
UpsertWhere_Always(row) == TRUE

\* variant: the WHERE clause names another status
UpsertWhere_WrongStatus(row) == row.status # "Shipped"

\* WHERE orders.status != 'LabelBought'
UpsertWhere(row) == row.status # "LabelBought"

\* f overrides g
Merge(f, g) ==
  [k \in (DOMAIN f) \cup (DOMAIN g) |-> IF k \in DOMAIN f THEN f[k] ELSE g[k]]

\* the rows the transaction sees: its own writes over the committed rows
TxView(committed, writes) == Merge(writes, committed)

\* variant: the upsert runs outside the transaction (auto-commit)
CommittedAfterUpsert_AutoCommit(committed, writes) == Merge(writes, committed)

\* the committed rows after a statement inside BEGIN .. COMMIT
CommittedAfterUpsert(committed, writes) == committed

EmptyTx == [writes |-> <<>>, locks |-> {}]
NoResp == [status |-> 0]
SyncIdle ==
  [pc |-> "idle", orders |-> <<>>, idx |-> 0, inserted |-> 0, updated |-> 0,
   resp |-> NoResp]


\* variant: every returned row counts as inserted
CountInserted_EveryRow(inserted, conflict, doUpdate) ==
  IF ~conflict \/ doUpdate THEN inserted + 1 ELSE inserted

\* if (result.rowCount === 1 && result.rows[0].inserted) inserted += 1
CountInserted(inserted, conflict, doUpdate) ==
  IF ~conflict THEN inserted + 1 ELSE inserted

\* variant: rowCount is not looked at, every conflict counts as an update
CountUpdated_OnConflict(updated, conflict, doUpdate) ==
  IF conflict THEN updated + 1 ELSE updated

\* if (result.rowCount === 1 && !result.rows[0].inserted) updated += 1
CountUpdated(updated, conflict, doUpdate) ==
  IF doUpdate THEN updated + 1 ELSE updated

\* a request arrives: pool.connect()
SyncRequest ==
  /\ sync.pc \in {"idle", "done"}
  /\ sync' = [SyncIdle EXCEPT !.pc = "fetch"]
  /\ syncBase' = orders
  /\ UNCHANGED <<tx, dbVars>>
  /\ UNCHANGED <<libVars, reprint, buy, bulk>>

\* the next request arrives right after a sync that answered 200;
\* last (ghost): the list that sync had fetched
SyncRepeat ==
  /\ sync.pc = "done"
  /\ sync.resp.status = 200
  /\ sync' = [pc |-> "fetch", orders |-> <<>>, idx |-> 0, inserted |-> 0,
              updated |-> 0, resp |-> NoResp, last |-> sync.orders]
  /\ syncBase' = orders
  /\ UNCHANGED <<tx, dbVars>>
  /\ UNCHANGED <<libVars, reprint, buy, bulk>>

\* fetchUnshippedPrimeOrdersWithItems() resolves; BEGIN
SyncFetchOk(lists) ==
  /\ sync.pc = "fetch"
  /\ \E list \in lists :
       sync' = [sync EXCEPT !.pc = "upsert", !.orders = list, !.idx = 1]
  /\ UNCHANGED <<tx, syncBase, dbVars>>
  /\ UNCHANGED <<libVars, reprint, buy, bulk>>

\* fetchUnshippedPrimeOrdersWithItems() rejects
SyncFetchFail ==
  /\ sync.pc = "fetch"
  /\ sync' = [sync EXCEPT !.pc = "rollback"]
  /\ UNCHANGED <<tx, syncBase, dbVars>>
  /\ UNCHANGED <<libVars, reprint, buy, bulk>>

\* INSERT ... ON CONFLICT (amazon_order_id) DO UPDATE ... WHERE ... for the
\* order at idx, and the inserted / updated counters
SyncUpsert ==
  /\ sync.pc = "upsert"
  /\ sync.idx <= Len(sync.orders)
  /\ LET f == sync.orders[sync.idx]
         id == f.amazon_order_id
         view == TxView(orders, tx.writes)
         conflict == id \in DOMAIN view
         doUpdate == conflict /\ UpsertWhere(view[id])
         writes == IF ~conflict THEN Merge(id :> InsertedRow(f), tx.writes)
                   ELSE IF doUpdate
                        THEN Merge(id :> UpdatedRow(view[id], f), tx.writes)
                        ELSE tx.writes
     IN /\ tx' = [writes |-> writes, locks |-> tx.locks \cup {id}]
        /\ orders' = CommittedAfterUpsert(orders, writes)
        /\ sync' = [sync EXCEPT
                      !.idx = @ + 1,
                      !.inserted = CountInserted(@, conflict, doUpdate),
                      !.updated = CountUpdated(@, conflict, doUpdate)]
  /\ UNCHANGED <<syncBase, defaults>>
  /\ UNCHANGED <<libVars, reprint, buy, bulk>>

\* a statement of the transaction (an upsert or the COMMIT) rejects
SyncQueryFail ==
  /\ sync.pc = "upsert"
  /\ sync' = [sync EXCEPT !.pc = "rollback"]
  /\ UNCHANGED <<tx, syncBase, dbVars>>
  /\ UNCHANGED <<libVars, reprint, buy, bulk>>

\* COMMIT; res.json({ synced, inserted, updated })
SyncCommit ==
  /\ sync.pc = "upsert"
  /\ sync.idx > Len(sync.orders)
  /\ orders' = Merge(tx.writes, orders)
  /\ syncBase' = orders'
  /\ tx' = EmptyTx
  /\ sync' = [sync EXCEPT
                !.pc = "done",
                !.resp = [status |-> 200, synced |-> Len(sync.orders),
                          inserted |-> sync.inserted, updated |-> sync.updated]]
  /\ UNCHANGED defaults
  /\ UNCHANGED <<libVars, reprint, buy, bulk>>

\* ROLLBACK; res.status(500)
SyncRollback ==
  /\ sync.pc = "rollback"
  /\ tx' = EmptyTx
  /\ sync' = [sync EXCEPT !.pc = "done", !.resp = [status |-> 500]]
  /\ UNCHANGED <<syncBase, dbVars>>
  /\ UNCHANGED <<libVars, reprint, buy, bulk>>

\* ------------------------------------------------------------------------
\* Label purchase: POST /api/buy-label and POST /api/bulk-buy-labels
\* ------------------------------------------------------------------------

PackageA ==
  [weight |-> [value |-> 200, unit |-> "oz"],
   dimensions |-> [length |-> 10, width |-> 6, height |-> 2, unit |-> "in"]]
PackageB ==
  [weight |-> [value |-> 2, unit |-> "kg"],
   dimensions |-> [length |-> 30, width |-> 20, height |-> 10, unit |-> "cm"]]

\* ------------------------------------------------------------------------
\* validateLabelRequest
\* ------------------------------------------------------------------------

WEIGHT_UNITS == {"oz", "lb", "g", "kg"}
DIMENSION_UNITS == {"in", "cm"}
MAX_WEIGHT_LB == 150
MIN_DIMENSION_IN_TENTHS == 1
MAX_DIMENSION_IN == 108
MAX_BULK_IDS == 50

\* numbers after normalizeNumber: an integer, NaN, or Infinity
NaN == -1000000000
Infinity == 1000000000
IsFinite(n) == n # NaN /\ n # Infinity

\* an order id as it arrives: a positive number stands for a non-empty
\* string, EmptyId for '', BlankId for '  ', NonStringId for any other value
EmptyId == 0
BlankId == -1
NonStringId == -2

\* typeof id !== 'string' || !id.trim()
NotAnId(id) == id <= 0

\* a weight or dimensions that is missing or not an object
NotAnObject == [absent |-> TRUE]
IsObject(x) == "absent" \notin DOMAIN x

ERR_BULK_RANGE == "amazon_order_ids must contain between 1 and 50 order IDs."
ERR_BULK_ID == "amazon_order_ids[idx] must be a non-empty string."
ERR_SINGLE_ID == "amazon_order_id must be a non-empty string."
ERR_WEIGHT_OBJECT == "weight is required and must be an object."
ERR_WEIGHT_VALUE == "weight.value must be a positive number."
ERR_WEIGHT_UNIT == "weight.unit must be one of: oz, lb, g, kg."
ERR_WEIGHT_LIMIT == "weight.value exceeds the 150 lb limit."
ERR_DIM_OBJECT == "dimensions are required and must be an object."
ERR_DIM_POSITIVE == "dimensions.name must be a positive number."
ERR_DIM_UNIT == "dimensions.unit must be one of: in, cm."
ERR_DIM_RANGE == "dimensions.name must be between 0.1 and 108 inches."
WARN_DIM_WEIGHT == "Dimensional weight exceeds 150 lb."
ERR_INVALID_REQUEST == "Invalid request."

\* toInches, in hundredths of an inch: value / 2.54 for cm
toInches(value, unit) ==
  IF unit = "cm" THEN (value * 10000) \div 254 ELSE value * 100

\* variant: ounces are taken for pounds
toPounds_OuncesAsPounds(value, unit) ==
  IF unit = "g" THEN (value * 22046) \div 10000
  ELSE IF unit = "kg" THEN value * 2204 + (value * 62262) \div 100000
  ELSE value * 1000

\* toPounds, in thousandths of a pound: value / 16 for oz, value / 453.59237
\* for g (to four digits of the factor), value * 2.20462262 for kg
toPounds(value, unit) ==
  IF unit = "oz" THEN (value * 1000) \div 16
  ELSE IF unit = "g" THEN (value * 22046) \div 10000
  ELSE IF unit = "kg" THEN value * 2204 + (value * 62262) \div 100000
  ELSE value * 1000

\* computeDimensionalWeightLb, in thousandths of a pound
computeDimensionalWeightLb(length, width, height, unit) ==
  IF unit = "cm" THEN (length * width * height * 441) \div 1000
  ELSE (length * width * height * 1000) \div 139

RECURSIVE BulkEntryErrors(_, _)
\* ids.forEach: one error for each entry that is not a non-empty string
BulkEntryErrors(ids, i) ==
  IF i > Len(ids) THEN <<>>
  ELSE (IF NotAnId(ids[i]) THEN <<(<<ERR_BULK_ID, i - 1>>)>> ELSE <<>>)
         \o BulkEntryErrors(ids, i + 1)

\* variant: the entries of the list are not looked at
BulkIdErrors_RangeOnly(ids) ==
  PushIf(<<>>, Len(ids) < 1 \/ Len(ids) > MAX_BULK_IDS, <<ERR_BULK_RANGE>>)

\* the checks on amazon_order_ids
BulkIdErrors(ids) ==
  PushIf(<<>>, Len(ids) < 1 \/ Len(ids) > MAX_BULK_IDS, <<ERR_BULK_RANGE>>)
    \o BulkEntryErrors(ids, 1)

\* the checks on amazon_order_id
SingleIdErrors(id) == PushIf(<<>>, NotAnId(id), <<ERR_SINGLE_ID>>)

\* the checks on weight
WeightErrors(weight) ==
  IF ~IsObject(weight) THEN <<(<<ERR_WEIGHT_OBJECT>>)>>
  ELSE LET e1 == PushIf(<<>>, ~IsFinite(weight.value) \/ weight.value <= 0,
                        <<ERR_WEIGHT_VALUE>>)
           e2 == PushIf(e1, weight.unit \notin WEIGHT_UNITS, <<ERR_WEIGHT_UNIT>>)
       IN PushIf(e2, /\ IsFinite(weight.value)
                     /\ weight.unit \in WEIGHT_UNITS
                     /\ toPounds(weight.value, weight.unit) > MAX_WEIGHT_LB * 1000,
                 <<ERR_WEIGHT_LIMIT>>)

\* value < MIN_DIMENSION_IN || value > MAX_DIMENSION_IN, on hundredths
OutOfRange(inches) ==
  inches < MIN_DIMENSION_IN_TENTHS * 10 \/ inches > MAX_DIMENSION_IN * 100

\* the range checks on the three dimensions, once all are finite
DimensionRangeErrors(d) ==
  LET r1 == PushIf(<<>>, OutOfRange(toInches(d.length, d.unit)), <<ERR_DIM_RANGE, "length">>)
      r2 == PushIf(r1, OutOfRange(toInches(d.width, d.unit)), <<ERR_DIM_RANGE, "width">>)
  IN PushIf(r2, OutOfRange(toInches(d.height, d.unit)), <<ERR_DIM_RANGE, "height">>)

\* the three values are finite and the unit is known
Measurable(d) ==
  /\ IsFinite(d.length) /\ IsFinite(d.width) /\ IsFinite(d.height)
  /\ d.unit \in DIMENSION_UNITS

\* the checks on dimensions
DimensionErrors(d) ==
  IF ~IsObject(d) THEN <<(<<ERR_DIM_OBJECT>>)>>
  ELSE LET e1 == PushIf(<<>>, ~IsFinite(d.length) \/ d.length <= 0,
                        <<ERR_DIM_POSITIVE, "length">>)
           e2 == PushIf(e1, ~IsFinite(d.width) \/ d.width <= 0,
                        <<ERR_DIM_POSITIVE, "width">>)
           e3 == PushIf(e2, ~IsFinite(d.height) \/ d.height <= 0,
                        <<ERR_DIM_POSITIVE, "height">>)
           e4 == PushIf(e3, d.unit \notin DIMENSION_UNITS, <<ERR_DIM_UNIT>>)
       IN IF Measurable(d) THEN e4 \o DimensionRangeErrors(d) ELSE e4

\* the dimensional-weight warning
DimensionWarnings(d) ==
  IF IsObject(d) /\ Measurable(d)
     /\ computeDimensionalWeightLb(d.length, d.width, d.height, d.unit)
          > MAX_WEIGHT_LB * 1000
  THEN <<(<<WARN_DIM_WEIGHT>>)>>
  ELSE <<>>

\* { ok: errors.length === 0, errors, warnings }
RequestReport(errors, warnings) ==
  [ok |-> Len(errors) = 0, errors |-> errors, warnings |-> warnings]

\* validateLabelRequest: payload.amazon_order_ids is an array for a bulk
\* request and absent for a single one
validateLabelRequest(payload) ==
  RequestReport(
    (IF "amazon_order_ids" \in DOMAIN payload
     THEN BulkIdErrors(payload.amazon_order_ids)
     ELSE SingleIdErrors(payload.amazon_order_id))
      \o WeightErrors(payload.weight) \o DimensionErrors(payload.dimensions),
    DimensionWarnings(payload.dimensions))

\* res.status(400).json({ error: 'Invalid request.', details })
InvalidRequest(validation) ==
  [status |-> 400, error |-> <<ERR_INVALID_REQUEST>>, details |-> validation.errors]

\* the zpl_inject_* fields of a request body
InjectPayload(x, y, dry) ==
  [zpl_inject_x |-> x, zpl_inject_y |-> y, zpl_inject_dry_run |-> dry]

\* labels the remote system returns (after gunzip)
LabelOk == <<"^","X","A","^","F","D","x","^","F","S","^","X","Z">>
LabelNoEnd == <<"^","X","A","^","F","D","x","^","F","S">>
LabelWide == <<"^","X","A","^","P","W","9","0","0","^","L","L","1","2","0","0","^","X","Z">>
LabelNarrow == <<"^","X","A","^","P","W","6","0","0","^","X","Z">>

\* shipment.Label.FileContents.Contents: the gzipped, base64-encoded label
Gzipped(zpl) == [valid |-> TRUE, zpl |-> zpl]
CorruptContents == [valid |-> FALSE, zpl |-> <<>>]

ERR_ORDER_NOT_FOUND == "Order not found in local database."
ERR_NO_SERVICES == "No eligible shipping services returned from Amazon."
ERR_NO_SHIPMENT == "Shipment data missing in createShipment response."
ERR_NO_LABEL == "Label data missing in createShipment response."
ERR_REMOTE == "Request failed"
ERR_GUNZIP == "incorrect header check"
ERR_DB == "Connection terminated unexpectedly"
ERR_BUY_FAILED == "Failed to buy label from Amazon."

\* how buyLabel ends: it throws, or it returns a label and a tracking id
BuyLabelThrows(message) == [ok |-> FALSE, message |-> message]
BuyLabelReturns(contents, trackingId) ==
  [ok |-> TRUE, labelGzipped |-> contents, trackingId |-> trackingId]

\* a shipping service of the eligible list: its id and its cost, where the
\* cost is an amount >= 0, NoAmount (ShippingServiceCost has no Amount) or
\* NoCostObject (the service has no ShippingServiceCost)
NoAmount == -1
NoCostObject == -2
ShippingService(id, cost) == [ShippingServiceId |-> id, cost |-> cost]

\* Number(s.ShippingServiceCost && s.ShippingServiceCost.Amount) || Infinity
CostOrInfinity(s) == IF s.cost > 0 THEN s.cost ELSE Infinity

\* (min, s) => cost < min.cost ? { service: s, cost } : min
ReduceStep(min, s) ==
  IF CostOrInfinity(s) < min.cost
  THEN [service |-> s, cost |-> CostOrInfinity(s)]
  ELSE min

RECURSIVE Reduce(_, _, _)
\* services.reduce(step, min) from position i on
Reduce(services, i, min) ==
  IF i > Len(services) THEN min
  ELSE Reduce(services, i + 1, ReduceStep(min, services[i]))

\* the cheapest service as buyLabel selects it (services[0] has a cost object)
Cheapest(services) ==
  Reduce(services, 1,
         [service |-> services[1], cost |-> CostOrInfinity(services[1])]).service

ERR_NO_CONTENTS == "Label file contents missing in createShipment response."
ERR_TYPE == "Cannot read properties of undefined (reading 'Amount')"

\* shipmentResponse.payload.Shipment
NoShipment == [present |-> FALSE]
Shipment(hasLabel, contents, trackingId) ==
  [present |-> TRUE, hasLabel |-> hasLabel, contents |-> contents,
   trackingId |-> trackingId]
NoContents == [valid |-> FALSE, zpl |-> <<"-">>]

\* the eligible list reached buyLabel: the checks on it and the selection
EligibleOutcome(c) ==
  IF Len(c.services) = 0
  THEN [pc |-> "thrown", services |-> c.services, shipment |-> c.shipment,
        result |-> BuyLabelThrows(ERR_NO_SERVICES)]
  ELSE IF c.services[1].cost = NoCostObject
  THEN [pc |-> "thrown", services |-> c.services, shipment |-> c.shipment,
        result |-> BuyLabelThrows(ERR_TYPE)]
  ELSE [pc |-> "create", services |-> c.services, shipment |-> c.shipment,
        selected |-> Cheapest(c.services)]

\* the createShipment response reached buyLabel: the checks on it
ShipmentOutcome(shipment) ==
  IF ~shipment.present THEN BuyLabelThrows(ERR_NO_SHIPMENT)
  ELSE IF ~shipment.hasLabel THEN BuyLabelThrows(ERR_NO_LABEL)
  ELSE IF shipment.contents = NoContents THEN BuyLabelThrows(ERR_NO_CONTENTS)
  ELSE BuyLabelReturns(shipment.contents, shipment.trackingId)

\* getEligibleShipmentServices resolved
BuyLabelEligible ==
  /\ labelCall.pc = "eligible"
  /\ labelCall' = EligibleOutcome(labelCall)
  /\ UNCHANGED <<retryVars, storeVars, zplCall>>

\* createShipment resolved
BuyLabelCreate ==
  /\ labelCall.pc = "create"
  /\ labelCall' = [pc |-> "settled", services |-> labelCall.services,
                   shipment |-> labelCall.shipment,
                   selected |-> labelCall.selected,
                   result |-> ShipmentOutcome(labelCall.shipment)]
  /\ UNCHANGED <<retryVars, storeVars, zplCall>>

\* retryWithBackoff rethrows the error of either remote call
BuyLabelRemoteFail ==
  /\ labelCall.pc \in {"eligible", "create"}
  /\ labelCall' = [pc |-> "thrown", services |-> labelCall.services,
                   shipment |-> labelCall.shipment,
                   result |-> BuyLabelThrows(ERR_REMOTE)]
  /\ UNCHANGED <<retryVars, storeVars, zplCall>>

\* gunzipBase64Zpl: <<zpl>>, or <<>> when zlib throws
gunzipBase64Zpl(contents) == IF contents.valid THEN <<contents.zpl>> ELSE <<>>

\* items[0] || { sku: 'UNKNOWN', quantity: 1 }
FirstItem(items) ==
  IF Len(items) > 0 THEN items[1] ELSE [sku |-> UNKNOWN_SKU, quantity |-> 1]

\* new Set(items.map(item => item?.sku).filter(Boolean))
DistinctSkus(items) == {items[i].sku : i \in 1..Len(items)} \ {<<>>}

\* variant: the UPDATE leaves a row that is LabelBought alone
ApplyLabelBought_OnlyOnce(rows, id, trackingId, zpl) ==
  IF id \in DOMAIN rows /\ rows[id].status # "LabelBought"
  THEN [rows EXCEPT ![id].status = "LabelBought",
                    ![id].tracking_id = trackingId,
                    ![id].label_zpl = zpl]
  ELSE rows

\* variant: the UPDATE does not set label_zpl
ApplyLabelBought_NoLabel(rows, id, trackingId, zpl) ==
  IF id \in DOMAIN rows
  THEN [rows EXCEPT ![id].status = "LabelBought", ![id].tracking_id = trackingId]
  ELSE rows

\* variant: the UPDATE sets the status only
ApplyLabelBought_StatusOnly(rows, id, trackingId, zpl) ==
  IF id \in DOMAIN rows
  THEN [rows EXCEPT ![id].status = "LabelBought"]
  ELSE rows

\* UPDATE orders SET status = 'LabelBought', tracking_id, label_zpl WHERE id
ApplyLabelBought(rows, id, trackingId, zpl) ==
  IF id \in DOMAIN rows
  THEN [rows EXCEPT ![id].status = "LabelBought",
                    ![id].tracking_id = trackingId,
                    ![id].label_zpl = zpl]
  ELSE rows

\* every label, first item and injection option the requests below use
KnownLabels == {LabelOk, LabelWide, LabelNoEnd, LabelNarrow}
KnownItems ==
  {FirstItem(FetchedOrder(1, rev).items) : rev \in RemoteRevisions}
KnownOptions ==
  {getZplInjectOptions(InjectPayload(NoNumber, NoNumber, dry)) : dry \in BOOLEAN}

RECURSIVE InjectTable(_)
\* injectSkuToZpl tabulated over a set of argument tuples
InjectTable(args) ==
  IF args = {} THEN <<>>
  ELSE LET a == CHOOSE x \in args : TRUE
       IN (a :> injectSkuToZpl(a[1], a[2], a[3], a[4])) @@ InjectTable(args \ {a})

\* evaluated once: the injection results for the known arguments
InjectResults ==
  InjectTable({<<zpl, item.sku, item.quantity, opt>> :
                 zpl \in KnownLabels, item \in KnownItems, opt \in KnownOptions})

\* injectSkuToZpl(...), looked up in the table
Inject(zpl, sku, quantity, options) == InjectResults[<<zpl, sku, quantity, options>>]

\* if (!injectionResult.success) ... else modifiedZpl = injectionResult.zpl
InjectionOutcome(injectionResult, trackingId) ==
  IF ~injectionResult.success
  THEN [ok |-> FALSE, thrown |-> FALSE, error |-> injectionResult.error]
  ELSE [ok |-> TRUE, zpl |-> injectionResult.zpl, trackingId |-> trackingId]

\* gunzipBase64Zpl(labelGzipped), then injectSkuToZpl on the first item
UnzipAndInject(unzipped, firstItem, options, trackingId) ==
  IF unzipped = <<>>
  THEN [ok |-> FALSE, thrown |-> TRUE, error |-> <<ERR_GUNZIP>>]
  ELSE InjectionOutcome(Inject(unzipped[1], firstItem.sku, firstItem.quantity, options),
                        trackingId)

\* what follows the awaited buyLabel call up to the injection result:
\* [ok, thrown, error] or [ok, zpl, trackingId]
LabelFor(out, items, body) ==
  IF ~out.ok THEN [ok |-> FALSE, thrown |-> TRUE, error |-> <<out.message>>]
  ELSE UnzipAndInject(gunzipBase64Zpl(out.labelGzipped), FirstItem(items),
                      getZplInjectOptions(body), out.trackingId)

\* no stored row
NoRow == <<>>

\* the stored row of an order id, NoRow when there is none
RowOf(rows, id) == IF id \in DOMAIN rows THEN rows[id] ELSE NoRow

\* before (ghost): the stored row of the order when the request arrived
BuyIdle ==
  [pc |-> "idle", req |-> <<>>, items |-> <<>>, zpl |-> NullZpl,
   trackingId |-> NoTracking, resp |-> NoResp, before |-> NoRow]

BuyDone(b, resp) ==
  [BuyIdle EXCEPT !.pc = "done", !.req = b.req, !.resp = resp, !.before = b.before]

\* the handler's state once the request has been validated
BuyArrived(b, validation) ==
  IF ~validation.ok THEN BuyDone(b, InvalidRequest(validation))
  ELSE [b EXCEPT !.pc = "select"]

\* a request arrives: validateLabelRequest, 400 when it is not ok
BuyRequest(reqs) ==
  /\ buy.pc \in {"idle", "done"}
  /\ \E req \in reqs :
       buy' = BuyArrived([BuyIdle EXCEPT !.req = req,
                                         !.before = RowOf(orders, req.amazon_order_id)],
                         validateLabelRequest([amazon_order_id |-> req.amazon_order_id,
                                               weight |-> req.weight,
                                               dimensions |-> req.dimensions]))
  /\ UNCHANGED <<libVars, reprint, dbVars, syncVars, bulk>>

\* res.status(404).json({ error: 'Order not found in local database.' })
OrderNotFound == [status |-> 404, error |-> <<ERR_ORDER_NOT_FOUND>>]

\* SELECT items FROM orders WHERE amazon_order_id = $1
BuySelect ==
  /\ buy.pc = "select"
  /\ LET id == buy.req.amazon_order_id IN
     IF id \notin DOMAIN orders
     THEN buy' = BuyDone(buy, OrderNotFound)
     ELSE buy' = [buy EXCEPT !.pc = "remote", !.items = orders[id].items]
  /\ UNCHANGED <<libVars, reprint, dbVars, syncVars, bulk>>

\* a pool.query of the handler rejects: the catch block answers 500
BuyQueryFail ==
  /\ buy.pc \in {"select", "update", "defaults"}
  /\ buy' = BuyDone(buy, [status |-> 500, error |-> <<ERR_BUY_FAILED>>])
  /\ UNCHANGED <<libVars, reprint, dbVars, syncVars, bulk>>

\* what the caller of buy-label is told when no label came out: the message
\* of the injection, or the catch block's one text for everything thrown
BuyFailureResponse(r) ==
  [status |-> 500, error |-> IF r.thrown THEN <<ERR_BUY_FAILED>> ELSE r.error]

\* await buyLabel(...), gunzip, injectSkuToZpl
BuyRemote(outcomes) ==
  /\ buy.pc = "remote"
  /\ \E out \in outcomes : \E r \in {LabelFor(out, buy.items, buy.req.body)} :
       IF r.ok
       THEN buy' = [buy EXCEPT !.pc = "update", !.zpl = r.zpl,
                               !.trackingId = r.trackingId]
       ELSE buy' = BuyDone(buy, BuyFailureResponse(r))
  /\ UNCHANGED <<libVars, reprint, dbVars, syncVars, bulk>>

\* UPDATE orders SET status, tracking_id, label_zpl (auto-commit); it waits
\* while the sync transaction holds the row
BuyUpdate ==
  /\ buy.pc = "update"
  /\ LET id == buy.req.amazon_order_id IN
     /\ id \notin tx.locks
     /\ orders' = ApplyLabelBought(orders, id, buy.trackingId, buy.zpl)
     /\ syncBase' = ApplyLabelBought(syncBase, id, buy.trackingId, buy.zpl)
     /\ IF Cardinality(DistinctSkus(buy.items)) = 1
        THEN buy' = [buy EXCEPT !.pc = "defaults"]
        ELSE buy' = BuyDone(buy, [status |-> 200, zpl |-> buy.zpl,
                                  trackingId |-> buy.trackingId])
  /\ UNCHANGED <<libVars, reprint, defaults, sync, tx, bulk>>

\* INSERT INTO product_shipping_defaults ... ON CONFLICT (sku) DO UPDATE
BuyDefaults ==
  /\ buy.pc = "defaults"
  /\ LET sku == CHOOSE k \in DistinctSkus(buy.items) : TRUE IN
     defaults' = Merge(sku :> [weight |-> buy.req.weight,
                               dimensions |-> buy.req.dimensions], defaults)
  /\ buy' = BuyDone(buy, [status |-> 200, zpl |-> buy.zpl,
                          trackingId |-> buy.trackingId])
  /\ UNCHANGED <<libVars, reprint, orders, syncVars, bulk>>

BulkIdle ==
  [pc |-> "idle", req |-> <<>>, idx |-> 0, items |-> <<>>, zpl |-> NullZpl,
   trackingId |-> NoTracking, succeeded |-> <<>>, failed |-> <<>>,
   combinedZpl |-> <<>>, journal |-> <<>>, resp |-> NoResp]

\* results.failed.push({ amazon_order_id, error }); the journal notes, for
\* each id in input order, where its entry went and the label produced for it
PushFailed(b, error) ==
  [b EXCEPT !.failed = Append(@, [amazon_order_id |-> b.req.amazon_order_ids[b.idx],
                                  error |-> error]),
            !.journal = Append(@, [succeeded |-> FALSE, zpl |-> b.zpl])]

\* results.succeeded.push({ amazon_order_id, trackingId })
PushSucceeded(b) ==
  [b EXCEPT !.succeeded = Append(@, [amazon_order_id |-> b.req.amazon_order_ids[b.idx],
                                     trackingId |-> b.trackingId]),
            !.journal = Append(@, [succeeded |-> TRUE, zpl |-> b.zpl])]

\* res.json({ succeeded, failed, zpl, summary })
BulkRespond(b) ==
  [b EXCEPT
     !.pc = "done",
     !.items = <<>>, !.zpl = NullZpl, !.trackingId = NoTracking,
     !.resp = [status |-> 200,
               succeeded |-> b.succeeded,
               failed |-> b.failed,
               zpl |-> b.combinedZpl,
               summary |-> [total |-> Len(b.req.amazon_order_ids),
                            succeeded |-> Len(b.succeeded),
                            failed |-> Len(b.failed)]]]

\* variant: the loop is left at the first failure
BulkAdvance_Break(b) ==
  IF b.idx < Len(b.req.amazon_order_ids) /\ Len(b.failed) = 0
  THEN [b EXCEPT !.pc = "select", !.idx = b.idx + 1, !.items = <<>>,
                 !.zpl = NullZpl, !.trackingId = NoTracking]
  ELSE BulkRespond(b)

\* variant: the loop goes on two ids further
BulkAdvance_SkipsOne(b) ==
  IF b.idx < Len(b.req.amazon_order_ids)
  THEN [b EXCEPT !.pc = "select", !.idx = b.idx + 2, !.items = <<>>,
                 !.zpl = NullZpl, !.trackingId = NoTracking]
  ELSE BulkRespond(b)

\* the end of one loop iteration: the next id, or the response after the
\* last one
BulkAdvance(b) ==
  IF b.idx < Len(b.req.amazon_order_ids)
  THEN [b EXCEPT !.pc = "select", !.idx = b.idx + 1, !.items = <<>>,
                 !.zpl = NullZpl, !.trackingId = NoTracking]
  ELSE BulkRespond(b)

\* the handler's state once the request has been validated
BulkArrived(b, validation) ==
  IF ~validation.ok
  THEN [b EXCEPT !.pc = "done", !.resp = InvalidRequest(validation)]
  ELSE [b EXCEPT !.pc = "select", !.idx = 1]

\* a request arrives: validateLabelRequest, 400 when it is not ok
BulkRequest(reqs) ==
  /\ bulk.pc \in {"idle", "done"}
  /\ \E req \in reqs :
       bulk' = BulkArrived([BulkIdle EXCEPT !.req = req],
                           validateLabelRequest([amazon_order_ids |-> req.amazon_order_ids,
                                                 weight |-> req.weight,
                                                 dimensions |-> req.dimensions]))
  /\ UNCHANGED <<libVars, reprint, dbVars, syncVars, buy>>

\* SELECT items FROM orders WHERE amazon_order_id = $1
BulkSelect ==
  /\ bulk.pc = "select"
  /\ LET id == bulk.req.amazon_order_ids[bulk.idx] IN
     IF id \notin DOMAIN orders
     THEN \E b \in {PushFailed(bulk, <<ERR_ORDER_NOT_FOUND>>)} : bulk' = BulkAdvance(b)
     ELSE bulk' = [bulk EXCEPT !.pc = "remote", !.items = orders[id].items]
  /\ UNCHANGED <<libVars, reprint, dbVars, syncVars, buy>>

\* a pool.query of the loop body rejects: the catch block records the id
BulkQueryFail ==
  /\ bulk.pc \in {"select", "update"}
  /\ \E b \in {PushFailed(bulk, <<ERR_DB>>)} : bulk' = BulkAdvance(b)
  /\ UNCHANGED <<libVars, reprint, dbVars, syncVars, buy>>

\* variant: the labels are appended without the separating newline
AppendLabel_NoSeparator(combinedZpl, modifiedZpl) == combinedZpl \o modifiedZpl

\* combinedZpl += '\n' (unless empty); combinedZpl += modifiedZpl
AppendLabel(combinedZpl, modifiedZpl) ==
  IF combinedZpl # <<>> THEN combinedZpl \o Newline \o modifiedZpl
  ELSE modifiedZpl

\* await buyLabel(...), gunzip, injectSkuToZpl, append to combinedZpl
BulkRemote(outcomes) ==
  /\ bulk.pc = "remote"
  /\ \E out \in outcomes : \E r \in {LabelFor(out, bulk.items, bulk.req.body)} :
       IF r.ok
       THEN bulk' = [bulk EXCEPT !.pc = "update", !.zpl = r.zpl,
                                 !.trackingId = r.trackingId,
                                 !.combinedZpl = AppendLabel(@, r.zpl)]
       ELSE \E b \in {PushFailed(bulk, r.error)} : bulk' = BulkAdvance(b)
  /\ UNCHANGED <<libVars, reprint, dbVars, syncVars, buy>>

\* UPDATE orders SET status, tracking_id, label_zpl (auto-commit);
\* results.succeeded.push(...)
BulkUpdate ==
  /\ bulk.pc = "update"
  /\ LET id == bulk.req.amazon_order_ids[bulk.idx] IN
     /\ id \notin tx.locks
     /\ orders' = ApplyLabelBought(orders, id, bulk.trackingId, bulk.zpl)
     /\ syncBase' = ApplyLabelBought(syncBase, id, bulk.trackingId, bulk.zpl)
     /\ \E b \in {PushSucceeded(bulk)} : bulk' = BulkAdvance(b)
  /\ UNCHANGED <<libVars, reprint, defaults, sync, tx, buy>>

\* ------------------------------------------------------------------------
\* Reprint: GET /api/reprint/:orderId and POST /api/bulk-reprint
\* ------------------------------------------------------------------------

ERR_REPRINT_NOT_FOUND == "Order not found in database."
ERR_NO_SAVED_LABEL_SINGLE ==
  "No saved label found for this order. Label may not have been purchased yet."
ERR_NO_SAVED_LABEL == "No saved label found for this order."
ERR_REPRINT_FAILED == "Failed to reprint label."
ERR_IDS_REQUIRED == "amazon_order_ids array is required and must not be empty."

\* the handler's state while it works on a request
ReprintWork(kind, orderId, ids) ==
  [pc |-> "select", kind |-> kind, orderId |-> orderId, ids |-> ids, idx |-> 1,
   succeeded |-> <<>>, failed |-> <<>>, combinedZpl |-> <<>>, resp |-> NoResp]

\* GET /api/reprint/:orderId arrives
ReprintRequest(ids) ==
  /\ reprint.pc \in {"idle", "done"}
  /\ \E id \in ids : reprint' = ReprintWork("single", id, <<>>)
  /\ UNCHANGED <<libVars, dbVars, syncVars, buy, bulk>>

\* SELECT label_zpl ...; 404 without a row or without a label, else the label
ReprintSelect ==
  /\ reprint.pc = "select"
  /\ reprint.kind = "single"
  /\ LET row == RowOf(orders, reprint.orderId) IN
     reprint' =
       [reprint EXCEPT
          !.pc = "done",
          !.resp = IF row = NoRow
                   THEN [status |-> 404, error |-> ERR_REPRINT_NOT_FOUND]
                   ELSE IF row.label_zpl = NullZpl
                   THEN [status |-> 404, error |-> ERR_NO_SAVED_LABEL_SINGLE]
                   ELSE [status |-> 200, body |-> row.label_zpl]]
  /\ UNCHANGED <<libVars, dbVars, syncVars, buy, bulk>>

\* the pool.query of the single reprint rejects: 500
ReprintQueryFail ==
  /\ reprint.pc = "select"
  /\ reprint.kind = "single"
  /\ reprint' = [reprint EXCEPT
                   !.pc = "done",
                   !.resp = [status |-> 500, error |-> ERR_REPRINT_FAILED]]
  /\ UNCHANGED <<libVars, dbVars, syncVars, buy, bulk>>

\* POST /api/bulk-reprint arrives: 400 unless amazon_order_ids is a
\* non-empty array
BulkReprintRequest(lists) ==
  /\ reprint.pc \in {"idle", "done"}
  /\ \E ids \in lists :
       reprint' =
         IF Len(ids) = 0
         THEN [ReprintWork("bulk", 0, ids) EXCEPT
                 !.pc = "done",
                 !.resp = [status |-> 400, error |-> ERR_IDS_REQUIRED]]
         ELSE ReprintWork("bulk", 0, ids)
  /\ UNCHANGED <<libVars, dbVars, syncVars, buy, bulk>>

\* variant: the loop is left at the first id that fails
ReprintAdvance_Break(r) ==
  IF r.idx < Len(r.ids) /\ Len(r.failed) = 0
  THEN [r EXCEPT !.idx = r.idx + 1]
  ELSE [r EXCEPT
          !.pc = "done",
          !.resp = [status |-> 200, succeeded |-> r.succeeded, failed |-> r.failed,
                    zpl |-> r.combinedZpl,
                    summary |-> [total |-> Len(r.ids),
                                 succeeded |-> Len(r.succeeded),
                                 failed |-> Len(r.failed)]]]

\* the end of one loop iteration: the next id, or res.json after the last
ReprintAdvance(r) ==
  IF r.idx < Len(r.ids)
  THEN [r EXCEPT !.idx = r.idx + 1]
  ELSE [r EXCEPT
          !.pc = "done",
          !.resp = [status |-> 200, succeeded |-> r.succeeded, failed |-> r.failed,
                    zpl |-> r.combinedZpl,
                    summary |-> [total |-> Len(r.ids),
                                 succeeded |-> Len(r.succeeded),
                                 failed |-> Len(r.failed)]]]

\* results.failed.push({ amazon_order_id, error })
ReprintFailed(r, error) ==
  [r EXCEPT !.failed = Append(@, [amazon_order_id |-> r.ids[r.idx], error |-> error])]

\* combinedZpl += ('\n' +) labelZpl; results.succeeded.push({ amazon_order_id })
ReprintSucceeded(r, labelZpl) ==
  [r EXCEPT !.combinedZpl = IF @ # <<>> THEN @ \o Newline \o labelZpl ELSE labelZpl,
            !.succeeded = Append(@, [amazon_order_id |-> r.ids[r.idx]])]

\* one iteration of the bulk-reprint loop
ReprintIteration(r, row) ==
  IF row = NoRow THEN ReprintFailed(r, ERR_REPRINT_NOT_FOUND)
  ELSE IF row.label_zpl = NullZpl THEN ReprintFailed(r, ERR_NO_SAVED_LABEL)
  ELSE ReprintSucceeded(r, row.label_zpl)

\* SELECT label_zpl ... for the id at idx, and what follows it
BulkReprintSelect ==
  /\ reprint.pc = "select"
  /\ reprint.kind = "bulk"
  /\ \E r \in {ReprintIteration(reprint, RowOf(orders, reprint.ids[reprint.idx]))} :
       reprint' = ReprintAdvance(r)
  /\ UNCHANGED <<libVars, dbVars, syncVars, buy, bulk>>

\* the pool.query of one iteration rejects: the catch block records it
BulkReprintQueryFail ==
  /\ reprint.pc = "select"
  /\ reprint.kind = "bulk"
  /\ \E r \in {ReprintFailed(reprint, ERR_DB)} : reprint' = ReprintAdvance(r)
  /\ UNCHANGED <<libVars, dbVars, syncVars, buy, bulk>>

\* ------------------------------------------------------------------------
\* Specifications
\* ------------------------------------------------------------------------

RetryIdle ==
  /\ rPc = "returned"
  /\ rMaxRetries = DefaultMaxRetries
  /\ attempt = 0
  /\ lastError = <<>>
  /\ rOutcomes = <<>>
  /\ rRetryable = <<>>
  /\ rEvents = <<>>
  /\ rSlept = <<>>
  /\ rResult = <<>>

\* no call of validateZpl / injectSkuToZpl is being followed
ZplIdle == [pc |-> "idle"]

\* no call of buyLabel is being followed
LabelCallIdle == [pc |-> "idle"]

\* no reprint request is being served
ReprintIdle == [pc |-> "idle"]

\* no library call is being followed
LibIdle == RetryIdle /\ zplCall = ZplIdle /\ labelCall = LabelCallIdle

StoreInit ==
  /\ orders = <<>>
  /\ defaults = <<>>
  /\ sync = SyncIdle
  /\ tx = EmptyTx
  /\ syncBase = <<>>
  /\ buy = BuyIdle
  /\ bulk = BulkIdle
  /\ reprint = ReprintIdle

\* a call of retryWithBackoff starts while no request is being served
RetryCallInit ==
  RetryInit /\ StoreInit /\ zplCall = ZplIdle /\ labelCall = LabelCallIdle

\* one call of retryWithBackoff
SpecRetry == RetryCallInit /\ [][RetryNext]_vars

\* one call of retryWithBackoff in which every awaited promise settles: each
\* invocation of fn resolves or rejects, and each setTimeout fires
SpecRetryFair == RetryCallInit /\ [][RetryNext]_vars /\ WF_vars(RetryNext)

\* Concurrent requests: syncs over every order id, purchases of order 1
ContendedId == 1

BuyRequests ==
  {[amazon_order_id |-> ContendedId, weight |-> PackageA.weight,
    dimensions |-> PackageA.dimensions,
    body |-> InjectPayload(NoNumber, NoNumber, FALSE)]}

\* the bulk request that competes for the contended order
BulkRequests ==
  {[amazon_order_ids |-> <<ContendedId>>, weight |-> PackageA.weight,
    dimensions |-> PackageA.dimensions,
    body |-> InjectPayload(NoNumber, NoNumber, FALSE)]}

BuyLabelOutcomes ==
  {BuyLabelThrows(ERR_REMOTE),
   BuyLabelReturns(Gzipped(LabelOk), "TRK-1"),
   BuyLabelReturns(Gzipped(LabelNoEnd), "TRK-1")}

FetchedListsAll == FetchedLists(OrderIds)

Init == LibIdle /\ StoreInit

Next ==
  \/ SyncRequest
  \/ SyncFetchOk(FetchedListsAll)
  \/ SyncFetchFail
  \/ SyncUpsert
  \/ SyncQueryFail
  \/ SyncCommit
  \/ SyncRollback
  \/ BuyRequest(BuyRequests)
  \/ BuySelect
  \/ BuyQueryFail
  \/ BuyRemote(BuyLabelOutcomes)
  \/ BuyUpdate
  \/ BuyDefaults
  \/ BulkRequest(BulkRequests)
  \/ BulkSelect
  \/ BulkQueryFail
  \/ BulkRemote(BuyLabelOutcomes)
  \/ BulkUpdate

\* sync, single purchase and bulk purchase requests served concurrently
Spec == Init /\ [][Next]_vars

\* every request is answered or has not arrived
Quiet ==
  /\ sync.pc \in {"idle", "done"}
  /\ buy.pc \in {"idle", "done"}
  /\ bulk.pc \in {"idle", "done"}
  /\ reprint.pc \in {"idle", "done"}

LifecycleNext ==
  \/ (Quiet /\ SyncRequest)
  \/ SyncFetchOk(FetchedListsAll)
  \/ SyncFetchFail
  \/ SyncUpsert
  \/ SyncQueryFail
  \/ SyncCommit
  \/ SyncRollback
  \/ (Quiet /\ BuyRequest(BuyRequests))
  \/ BuySelect
  \/ BuyQueryFail
  \/ BuyRemote(BuyLabelOutcomes)
  \/ BuyUpdate
  \/ BuyDefaults
  \/ (Quiet /\ BulkRequest(BulkRequests))
  \/ BulkSelect
  \/ BulkQueryFail
  \/ BulkRemote(BuyLabelOutcomes)
  \/ BulkUpdate
  \/ (Quiet /\ ReprintRequest(OrderIds))
  \/ ReprintSelect
  \/ ReprintQueryFail

\* sync, purchase and reprint requests served one after the other, starting
\* with an empty order store
SpecLifecycle == Init /\ [][LifecycleNext]_vars

\* a stored row that was synced in revision rev and never bought
SyncedRow(id, rev) == InsertedRow(FetchedOrder(id, rev))

\* a stored row bought while in revision rev
BoughtRow(id, rev) ==
  [SyncedRow(id, rev) EXCEPT
     !.status = "LabelBought",
     !.tracking_id = "TRK-0",
     !.label_zpl = Inject(LabelOk, FirstItem(FetchedOrder(id, rev).items).sku,
                          FirstItem(FetchedOrder(id, rev).items).quantity,
                          getZplInjectOptions(InjectPayload(NoNumber, NoNumber, FALSE))).zpl]

\* the stores over the given ids: each id absent, synced or bought
Stores(ids) ==
  UNION {[present ->
            UNION {{SyncedRow(id, rev), BoughtRow(id, rev)} :
                     id \in present, rev \in RemoteRevisions}] :
           present \in SUBSET ids}

\* the stores in which the row of each id is a row of that id
ValidStores(ids) ==
  {st \in Stores(ids) :
     \A id \in DOMAIN st :
       \E rev \in RemoteRevisions : st[id] \in {SyncedRow(id, rev), BoughtRow(id, rev)}}

NumSyncOrderIds == 2
SyncOrderIds == 1..NumSyncOrderIds
SyncStores == ValidStores(SyncOrderIds)
SyncFetchedLists == FetchedLists(SyncOrderIds)

SyncInit ==
  /\ LibIdle
  /\ StoreInit!3 /\ StoreInit!4 /\ StoreInit!6 /\ StoreInit!7 /\ StoreInit!8
  /\ defaults = <<>>
  /\ orders \in SyncStores
  /\ syncBase = orders

SyncNext ==
  \/ SyncRequest
  \/ SyncFetchOk(SyncFetchedLists)
  \/ SyncFetchFail
  \/ SyncUpsert
  \/ SyncQueryFail
  \/ SyncCommit
  \/ SyncRollback

\* sync requests served one after the other over a stored order table
SpecSync == SyncInit /\ [][SyncNext]_vars

\* a sync, and after each successful sync another one for which the remote
\* side returns the same orders
ResyncNext ==
  \/ (sync.pc = "idle" /\ SyncRequest)
  \/ SyncRepeat
  \/ ("last" \notin DOMAIN sync /\ SyncFetchOk(SyncFetchedLists))
  \/ ("last" \in DOMAIN sync /\ SyncFetchOk({sync.last}))
  \/ SyncFetchFail
  \/ SyncUpsert
  \/ SyncQueryFail
  \/ SyncCommit
  \/ SyncRollback

SpecResync == SyncInit /\ [][ResyncNext]_vars

MaxBulkIds == 5
BulkOrderIds == {1, 2}

WideBulkRequests ==
  {[amazon_order_ids |-> ids, weight |-> PackageA.weight,
    dimensions |-> PackageA.dimensions,
    body |-> InjectPayload(NoNumber, NoNumber, FALSE)] :
     ids \in SeqsUpTo(BulkOrderIds, MaxBulkIds) \ {<<>>}}

\* order 1 is stored, order 2 is not
BulkStores == {st \in ValidStores({1}) : DOMAIN st = {1} /\ st[1] = SyncedRow(1, 1)}

BulkInit ==
  /\ LibIdle
  /\ StoreInit!3 /\ StoreInit!4 /\ StoreInit!6 /\ StoreInit!7 /\ StoreInit!8
  /\ defaults = <<>>
  /\ orders \in BulkStores
  /\ syncBase = orders

WideBuyLabelOutcomes ==
  {BuyLabelThrows(ERR_REMOTE),
   BuyLabelReturns(Gzipped(LabelOk), "TRK-1"),
   BuyLabelReturns(Gzipped(LabelWide), "TRK-2"),
   BuyLabelReturns(Gzipped(LabelNoEnd), "TRK-3")}

BulkNext ==
  \/ (bulk.pc = "idle" /\ BulkRequest(WideBulkRequests))
  \/ BulkSelect
  \/ BulkQueryFail
  \/ BulkRemote(WideBuyLabelOutcomes)
  \/ BulkUpdate

\* one bulk purchase request over a stored order table
SpecBulk == BulkInit /\ [][BulkNext]_vars

\* single purchase requests for a stored and for a missing order
BuyOrderIds == {1, 2}

WideBuyRequests ==
  {[amazon_order_id |-> id, weight |-> pkg.weight, dimensions |-> pkg.dimensions,
    body |-> InjectPayload(NoNumber, NoNumber, dry)] :
     id \in BuyOrderIds, pkg \in {PackageA, PackageB}, dry \in BOOLEAN}

\* order 1 is stored (synced or bought, in either revision), order 2 is not
BuyStores == {st \in ValidStores({1}) : DOMAIN st = {1}}

BuyInit ==
  /\ LibIdle
  /\ StoreInit!3 /\ StoreInit!4 /\ StoreInit!6 /\ StoreInit!7 /\ StoreInit!8
  /\ defaults = <<>>
  /\ orders \in BuyStores
  /\ syncBase = orders

BuyNext ==
  \/ BuyRequest(WideBuyRequests)
  \/ BuySelect
  \/ BuyQueryFail
  \/ BuyRemote(WideBuyLabelOutcomes)
  \/ BuyUpdate
  \/ BuyDefaults

\* single purchase requests served one after the other
SpecBuy == BuyInit /\ [][BuyNext]_vars

\* one purchase request of either kind, valid or not
MaxPurchaseIds == 2
PurchaseIds == {1, 2, EmptyId, BlankId, NonStringId}
PurchaseBulkIds == {1, 2, BlankId}

PurchaseWeights ==
  {NotAnObject}
    \cup {[value |-> v, unit |-> "oz"] : v \in {NaN, Infinity, -5, 0, 200, 2400, 2401}}
    \cup {[value |-> v, unit |-> "lb"] : v \in {1, 150, 151, 200}}
    \cup {[value |-> v, unit |-> "g"] : v \in {68000, 70000}}
    \cup {[value |-> v, unit |-> "kg"] : v \in {68, 69}}
    \cup {[value |-> 5, unit |-> "st"]}

PurchaseDimensions ==
  {PackageA.dimensions, PackageB.dimensions, NotAnObject,
   [length |-> 109, width |-> 6, height |-> 2, unit |-> "in"],
   [length |-> 10, width |-> 0, height |-> 2, unit |-> "in"],
   [length |-> 10, width |-> 6, height |-> 2, unit |-> "ft"]}

AnyBuyRequests ==
  {[amazon_order_id |-> id, weight |-> w, dimensions |-> PackageA.dimensions,
    body |-> InjectPayload(NoNumber, NoNumber, FALSE)] :
     id \in PurchaseIds, w \in PurchaseWeights}
    \cup {[amazon_order_id |-> 1, weight |-> PackageA.weight, dimensions |-> d,
           body |-> InjectPayload(NoNumber, NoNumber, FALSE)] :
            d \in PurchaseDimensions}

\* one id more than MAX_BULK_IDS
TooManyIds == [i \in 1..(MAX_BULK_IDS + 1) |-> 1]

AnyBulkRequests ==
  {[amazon_order_ids |-> ids, weight |-> w, dimensions |-> PackageA.dimensions,
    body |-> InjectPayload(NoNumber, NoNumber, FALSE)] :
     ids \in SeqsUpTo(PurchaseBulkIds, MaxPurchaseIds) \cup {TooManyIds},
     w \in {PackageA.weight, NotAnObject, [value |-> 200, unit |-> "lb"]}}

PurchaseOutcomes ==
  {BuyLabelThrows(ERR_NO_SERVICES),
   BuyLabelThrows(ERR_NO_SHIPMENT),
   BuyLabelThrows(ERR_NO_LABEL),
   BuyLabelReturns(Gzipped(LabelOk), "TRK-1"),
   BuyLabelReturns(Gzipped(LabelNoEnd), "TRK-3")}

PurchaseInit ==
  /\ LibIdle
  /\ StoreInit!3 /\ StoreInit!4 /\ StoreInit!6 /\ StoreInit!7 /\ StoreInit!8
  /\ defaults = <<>>
  /\ orders \in BuyStores
  /\ syncBase = orders

PurchaseNext ==
  \/ (buy.pc = "idle" /\ bulk.pc = "idle" /\ BuyRequest(AnyBuyRequests))
  \/ (buy.pc = "idle" /\ bulk.pc = "idle" /\ BulkRequest(AnyBulkRequests))
  \/ BuySelect
  \/ BuyQueryFail
  \/ BuyRemote(PurchaseOutcomes)
  \/ BuyUpdate
  \/ BuyDefaults
  \/ BulkSelect
  \/ BulkQueryFail
  \/ BulkRemote(PurchaseOutcomes)
  \/ BulkUpdate

\* one purchase request, single or bulk, over a stored order table
SpecPurchase == PurchaseInit /\ [][PurchaseNext]_vars

\* ------------------------------------------------------------------------
\* Reprint requests served one after the other
\* ------------------------------------------------------------------------

ReprintOrderIds == {1, 2, 3}
ReprintStoredIds == {1, 2}
MaxReprintIds == 3
ReprintLists == SeqsUpTo(ReprintOrderIds, MaxReprintIds)

\* orders 1 and 2 each absent, synced or bought; order 3 is never stored
ReprintStores == ValidStores(ReprintStoredIds)

ReprintInit ==
  /\ LibIdle
  /\ StoreInit!3 /\ StoreInit!4 /\ StoreInit!6 /\ StoreInit!7 /\ StoreInit!8
  /\ defaults = <<>>
  /\ orders \in ReprintStores
  /\ syncBase = orders

ReprintNext ==
  \/ ReprintRequest(ReprintOrderIds)
  \/ ReprintSelect
  \/ ReprintQueryFail
  \/ BulkReprintRequest(ReprintLists)
  \/ BulkReprintSelect
  \/ BulkReprintQueryFail

SpecReprint == ReprintInit /\ [][ReprintNext]_vars

\* ------------------------------------------------------------------------
\* One call of buyLabel
\* ------------------------------------------------------------------------

ServiceCosts == {NoCostObject, NoAmount, 0, 5, 9}
MaxServices == 3

\* the eligible lists: up to MaxServices services, ids by position
ServiceLists ==
  {[i \in 1..Len(costs) |-> ShippingService(i, costs[i])] :
     costs \in SeqsUpTo(ServiceCosts, MaxServices)}

ShipmentResponses ==
  {NoShipment,
   Shipment(FALSE, NoContents, "TRK-1"),
   Shipment(TRUE, NoContents, "TRK-1"),
   Shipment(TRUE, Gzipped(LabelOk), "TRK-1"),
   Shipment(TRUE, Gzipped(LabelOk), NoTracking)}

BuyLabelInit ==
  /\ RetryIdle
  /\ StoreInit
  /\ zplCall = ZplIdle
  /\ labelCall \in {[pc |-> "eligible", services |-> l, shipment |-> r] :
                      l \in ServiceLists, r \in ShipmentResponses}

BuyLabelNext == BuyLabelEligible \/ BuyLabelCreate \/ BuyLabelRemoteFail

SpecBuyLabel == BuyLabelInit /\ [][BuyLabelNext]_vars

\* ------------------------------------------------------------------------
\* Calls of validateZpl and injectSkuToZpl on one markup
\* ------------------------------------------------------------------------

\* the pieces markups are built from
PW800 == <<"^","P","W","8","0","0">>
LL1160 == <<"^","L","L","1","1","6","0">>
ZplTokens == {XA, XZ, PW800, LL1160, PW800 \o LL1160, <<"A">>, <<" ">>}

\* markups are made of at most MaxZplTokens pieces
MaxZplTokens == 3

RECURSIVE Concat(_)
\* the pieces written one after the other
Concat(pieces) ==
  IF Len(pieces) = 0 THEN <<>> ELSE pieces[1] \o Concat(Tail(pieces))

ZplMarkups == {Concat(pieces) : pieces \in SeqsUpTo(ZplTokens, MaxZplTokens)}

\* sku arguments: none, padded, of 20 characters, longer (padded), markers
SkuPadded == <<" "," ","S","K","U","-","A"," ">>
Sku20 == <<"A","B","C","D","E","F","G","H","I","J","K","L","M","N","O","P","Q","R","S","T">>
SkuLong == <<" ","A","B","C","D","E","F","G","H","I","J","K","L","M","N","O","P","Q","R","S","T","U","V","W"," ">>
SkuMarkers == <<"^","X","Z","^","X","A">>
ZplSkus == {<<>>, SkuPadded, Sku20, SkuLong, SkuMarkers}

\* the arguments of a call besides the markup: every sku and quantity at the
\* configured coordinates, and every pair of coordinates for one sku
ZplArguments ==
  {[sku |-> sku, quantity |-> q, x |-> NoNumber, y |-> NoNumber] :
     sku \in ZplSkus, q \in {0, 3}}
  \cup {[sku |-> SkuPadded, quantity |-> 3, x |-> x, y |-> y] :
          x \in {NoNumber, 100, 500, 100000}, y \in {NoNumber, 1101, 100000}}

ZplCalls ==
  {[pc |-> "start", zpl |-> zpl, sku |-> a.sku, quantity |-> a.quantity,
    x |-> a.x, y |-> a.y] : zpl \in ZplMarkups, a \in ZplArguments}

\* the options of the call being followed
ZplCallOptions(dryRun) == [x |-> zplCall.x, y |-> zplCall.y, dryRun |-> dryRun]

\* validateZpl(zpl)
ZplValidate ==
  /\ zplCall.pc = "start"
  /\ \E r \in {validateZpl(zplCall.zpl)} :
       zplCall' = [pc |-> "validated", zpl |-> zplCall.zpl, sku |-> zplCall.sku,
                   quantity |-> zplCall.quantity, x |-> zplCall.x, y |-> zplCall.y,
                   validation |-> r]
  /\ UNCHANGED <<retryVars, storeVars, labelCall>>

\* injectSkuToZpl(zpl, sku, quantity, { x, y })
ZplInject ==
  /\ zplCall.pc = "validated"
  /\ \E r \in {injectSkuToZpl(zplCall.zpl, zplCall.sku, zplCall.quantity,
                              ZplCallOptions(FALSE))} :
       zplCall' = [pc |-> "injected", zpl |-> zplCall.zpl, sku |-> zplCall.sku,
                   quantity |-> zplCall.quantity, x |-> zplCall.x, y |-> zplCall.y,
                   validation |-> zplCall.validation, result |-> r]
  /\ UNCHANGED <<retryVars, storeVars, labelCall>>

\* injectSkuToZpl(zpl, sku, quantity, { x, y, dryRun: true })
ZplDryRun ==
  /\ zplCall.pc = "injected"
  /\ \E r \in {injectSkuToZpl(zplCall.zpl, zplCall.sku, zplCall.quantity,
                              ZplCallOptions(TRUE))} :
       zplCall' = [pc |-> "done", zpl |-> zplCall.zpl, sku |-> zplCall.sku,
                   quantity |-> zplCall.quantity, x |-> zplCall.x, y |-> zplCall.y,
                   validation |-> zplCall.validation, result |-> zplCall.result,
                   dryResult |-> r]
  /\ UNCHANGED <<retryVars, storeVars, labelCall>>

ZplInit ==
  RetryIdle /\ StoreInit /\ zplCall \in ZplCalls /\ labelCall = LabelCallIdle

ZplNext == ZplValidate \/ ZplInject \/ ZplDryRun

\* the validator and the injector applied to one markup
SpecZpl == ZplInit /\ [][ZplNext]_vars

\* ------------------------------------------------------------------------
\* Properties of the remote call executor (checked under SpecRetry)
\* ------------------------------------------------------------------------

IsFailure(o) == o[1] = "error"
\* the first n invocations all failed with an error of HTTP status 503
FirstAre503(n) ==
  /\ Len(rOutcomes) >= n
  /\ \A i \in 1..n : /\ IsFailure(rOutcomes[i])
                     /\ getErrorStatus(rOutcomes[i][2].shape) = 503
\* the first n invocations all failed with an error classified retryable
FirstAreRetryable(n) ==
  /\ Len(rOutcomes) >= n
  /\ \A i \in 1..n : IsFailure(rOutcomes[i]) /\ rRetryable[i]

\* C1: with the default options, an operation that fails k <= 3 times in a
\* row with a retryable error (HTTP 503) and then succeeds is invoked k+1
\* times (it is not given up before, nor called after), the call returns the
\* successful result, and exactly k retry events are emitted, numbered 1..k,
\* with delays 1000 * 2^0 .. 1000 * 2^(k-1) in that order, each delay waited.
C1_RetryThenSuccess ==
  rMaxRetries = DefaultMaxRetries =>
    \A k \in 0..3 :
      /\ (FirstAre503(k) /\ Len(rOutcomes) = k) => rPc \in {"call", "sleep"}
      /\ (FirstAre503(k) /\ Len(rOutcomes) > k /\ rOutcomes[k + 1] = <<"ok">>) =>
           /\ rPc = "returned"
           /\ rResult = <<"ok">>
           /\ Len(rOutcomes) = k + 1
           /\ Len(rEvents) = k
           /\ \A i \in 1..k : /\ rEvents[i].retryNumber = i
                              /\ rEvents[i].delayMs = 1000 * 2^(i - 1)
           /\ rSlept = [i \in 1..k |-> 1000 * 2^(i - 1)]

C1_Witness ==
  /\ rMaxRetries = DefaultMaxRetries
  /\ rPc = "returned"
  /\ FirstAre503(3)
  /\ Len(rOutcomes) = 4
  /\ rSlept = <<1000, 2000, 4000>>

\* C2: an operation failing with an HTTP status >= 400 other than 503 is
\* not retried: no invocation follows that failure, the call throws that
\* very error, and when it is the first invocation no retry event was
\* emitted and no delay was waited.
C2_NoRetryOn4xx ==
  \A i \in 1..Len(rOutcomes) :
    (/\ IsFailure(rOutcomes[i])
     /\ getErrorStatus(rOutcomes[i][2].shape) >= 400
     /\ getErrorStatus(rOutcomes[i][2].shape) # 503) =>
       /\ i = Len(rOutcomes)
       /\ rPc = "thrown"
       /\ rResult = <<"error", rOutcomes[i][2]>>
       /\ Len(rEvents) = i - 1
       /\ Len(rSlept) = i - 1

C2_Witness ==
  /\ rPc = "thrown"
  /\ Len(rOutcomes) = 1
  /\ rOutcomes[1][2].shape.statusCode = 400
  /\ rEvents = <<>>
  /\ rSlept = <<>>

\* C3: when every attempt fails with a retryable error, exactly
\* maxRetries + 1 attempts are made (never fewer before giving up, never
\* more), maxRetries retry events are emitted, and the error thrown is the
\* error object raised by the last attempt.
C3_ExhaustedRethrowsLast ==
  /\ Len(rOutcomes) <= rMaxRetries + 1
  /\ (FirstAreRetryable(Len(rOutcomes)) /\ Len(rOutcomes) <= rMaxRetries) =>
        rPc \in {"call", "sleep"}
  /\ (FirstAreRetryable(rMaxRetries + 1)) =>
        /\ rPc = "thrown"
        /\ Len(rEvents) = rMaxRetries
        /\ rResult = <<"error", rOutcomes[rMaxRetries + 1][2]>>
        /\ rResult[2].raisedBy = rMaxRetries + 1

C3_Witness ==
  /\ rPc = "thrown"
  /\ rMaxRetries = DefaultMaxRetries
  /\ FirstAreRetryable(4)
  /\ rOutcomes[1][2].shape # rOutcomes[4][2].shape

\* C4: classification priority.  An error whose HTTP status is 503 is
\* retryable whatever else it carries; one whose status is another value
\* >= 400 is not retryable even with a QuotaExceeded or network code; so a
\* retryable error that is not a 503 has no status >= 400.
C4_StatusHasPriority ==
  \A i \in 1..Len(rRetryable) :
    LET e == rOutcomes[i][2].shape
        status == getErrorStatus(e)
    IN /\ status = 503 => rRetryable[i]
       /\ (status >= 400 /\ status # 503) => ~rRetryable[i]
       /\ (rRetryable[i] /\ status # 503) => status < 400

C4_Witness ==
  /\ Len(rRetryable) >= 2
  /\ rOutcomes[1][2].shape.statusCode = 503
  /\ rOutcomes[1][2].shape.code = "EPIPE"
  /\ rOutcomes[2][2].shape.statusCode = 429
  /\ rOutcomes[2][2].shape.code = "QuotaExceeded"
  /\ rRetryable = <<TRUE, FALSE>>

NoStatusFrom400(e) == getErrorStatus(e) < 400
NoQuotaSignal(e) ==
  /\ e.code # "QuotaExceeded"
  /\ e.nestedCode # "QuotaExceeded"
  /\ ~Includes(e.message, QUOTA_TEXT)
NoNetworkCode(e) == e.code \notin NETWORK_ERROR_CODES

\* C5 as stated: an error with no HTTP status >= 400, no quota-exceeded
\* signal and no code of the network set is not retryable, so the operation
\* is not invoked again.
C5_AsStated ==
  \A i \in 1..Len(rRetryable) :
    LET e == rOutcomes[i][2].shape IN
    (NoStatusFrom400(e) /\ NoQuotaSignal(e) /\ NoNetworkCode(e)) =>
      ~rRetryable[i] /\ i = Len(rOutcomes)

\* C5 amended: an error with no HTTP status >= 400, no quota-exceeded
\* signal, no code of the network set and no "timeout" (in any letter case)
\* in its message is not retryable, so the operation is not invoked again
\* and the error is thrown.
C5_Amended ==
  \A i \in 1..Len(rRetryable) :
    LET e == rOutcomes[i][2].shape IN
    (/\ NoStatusFrom400(e) /\ NoQuotaSignal(e) /\ NoNetworkCode(e)
     /\ ~Includes(ToLowerCase(e.message), TIMEOUT_TEXT)) =>
      /\ ~rRetryable[i]
      /\ i = Len(rOutcomes)
      /\ rPc = "thrown"

C5_Witness ==
  /\ rPc = "thrown"
  /\ Len(rOutcomes) = 1
  /\ rOutcomes[1][2].shape.code = "EPIPE"
  /\ getErrorStatus(rOutcomes[1][2].shape) = NoStatus

\* ------------------------------------------------------------------------
\* Properties of sync and purchase
\* ------------------------------------------------------------------------

\* a step of the sync handler
SyncStep == sync' # sync \/ tx' # tx

\* C6: a step of sync, its COMMIT included, leaves every stored row whose
\* status is LabelBought exactly as it was (status, tracking id, label
\* markup and every other field), whatever the fetched list contains.
C6_SyncKeepsLabelBought ==
  [][SyncStep =>
       \A id \in DOMAIN orders :
         orders[id].status = "LabelBought" =>
           id \in DOMAIN orders' /\ orders'[id] = orders[id]]_vars

\* a sync has committed a list holding another revision of a bought order
C6_Witness ==
  /\ sync.pc = "done"
  /\ sync.resp.status = 200
  /\ \E i \in 1..Len(sync.orders) :
       LET id == sync.orders[i].amazon_order_id IN
       /\ id \in DOMAIN orders
       /\ orders[id].status = "LabelBought"
       /\ orders[id].label_zpl # NullZpl
       /\ orders[id].purchase_date # sync.orders[i].purchase_date

\* C7: status ratchet.  In every interleaving of sync, single purchase and
\* bulk purchase steps, a row whose stored status is LabelBought is still
\* stored with status LabelBought after the step.
C7_StatusRatchet ==
  [][\A id \in DOMAIN orders :
       orders[id].status = "LabelBought" =>
         id \in DOMAIN orders' /\ orders'[id].status = "LabelBought"]_vars

\* a purchase is about to update a bought order whose row the open sync
\* transaction has visited
C7_Witness ==
  /\ sync.pc = "upsert"
  /\ ContendedId \in tx.locks
  /\ ContendedId \in DOMAIN orders
  /\ orders[ContendedId].status = "LabelBought"
  /\ buy.pc = "update"
  /\ bulk.pc = "update"

\* C8: sync is all-or-nothing.  Until the COMMIT, and after a sync that
\* failed (fetch, upsert or COMMIT rejected) and was rolled back, the stored
\* rows are those from before the request; after a successful sync every
\* fetched order is stored.
C8_SyncAllOrNothing ==
  /\ sync.pc \in {"fetch", "upsert", "rollback"} => orders = syncBase
  /\ (sync.pc = "done" /\ sync.resp.status = 500) => orders = syncBase
  /\ (sync.pc = "done" /\ sync.resp.status = 200) =>
       \A i \in 1..Len(sync.orders) : sync.orders[i].amazon_order_id \in DOMAIN orders

\* a sync of two orders failed after the upsert of the first, a new order
C8_Witness ==
  /\ sync.pc = "done"
  /\ sync.resp.status = 500
  /\ Len(sync.orders) = 2
  /\ sync.idx = 2
  /\ sync.orders[1].amazon_order_id \notin DOMAIN orders

\* the number of entries of seq whose order id is id
CountId(seq, id) == Cardinality({i \in 1..Len(seq) : seq[i].amazon_order_id = id})
\* the number of positions 1..n of ids that hold id
CountInput(ids, n, id) == Cardinality({i \in 1..n : ids[i] = id})
\* the ids whose loop iteration is over
Processed(b) == IF b.pc = "done" THEN Len(b.req.amazon_order_ids) ELSE b.idx - 1

\* C9: bulk purchase isolates failures.  Every id whose iteration is over
\* has exactly one entry, in succeeded or in failed; a failure does not end
\* the loop; the response comes after all n ids, with total = n and
\* succeeded + failed = total.
C9_BulkIsolatesFailures ==
  bulk.pc # "idle" =>
    LET ids == bulk.req.amazon_order_ids IN
    /\ Len(bulk.succeeded) + Len(bulk.failed) = Processed(bulk)
    /\ \A id \in BulkOrderIds :
         CountId(bulk.succeeded, id) + CountId(bulk.failed, id)
           = CountInput(ids, Processed(bulk), id)
    /\ bulk.pc = "done" =>
         /\ bulk.resp.summary.total = Len(ids)
         /\ bulk.resp.summary.succeeded + bulk.resp.summary.failed
              = bulk.resp.summary.total
         /\ bulk.resp.summary.succeeded = Len(bulk.resp.succeeded)
         /\ bulk.resp.summary.failed = Len(bulk.resp.failed)

\* five ids, the third not stored: total 5, failed 1, succeeded 4
C9_Witness ==
  /\ bulk.pc = "done"
  /\ bulk.req.amazon_order_ids = <<1, 1, 2, 1, 1>>
  /\ 2 \notin DOMAIN orders
  /\ bulk.resp.summary = [total |-> 5, succeeded |-> 4, failed |-> 1]
  /\ bulk.resp.failed[1].amazon_order_id = 2

RECURSIVE JoinLabels(_)
\* labels.join('\n')
JoinLabels(labels) ==
  IF Len(labels) = 0 THEN <<>>
  ELSE IF Len(labels) = 1 THEN labels[1]
  ELSE labels[1] \o Newline \o JoinLabels(Tail(labels))

RECURSIVE SucceededLabels(_)
\* the labels of the ids listed in succeeded, in input order
SucceededLabels(journal) ==
  IF Len(journal) = 0 THEN <<>>
  ELSE IF journal[1].succeeded
       THEN <<journal[1].zpl>> \o SucceededLabels(Tail(journal))
       ELSE SucceededLabels(Tail(journal))

\* C10 as stated: the combined document of the bulk response is exactly the
\* labels of the ids listed in succeeded, in input order, joined by single
\* newlines; it holds no label of an id listed in failed, also when that
\* id's label was produced and its store update then threw.
C10_AsStated ==
  bulk.pc = "done" => bulk.resp.zpl = JoinLabels(SucceededLabels(bulk.journal))

RECURSIVE ProducedLabels(_)
\* the labels produced (bought, decompressed and injected), in input order
ProducedLabels(journal) ==
  IF Len(journal) = 0 THEN <<>>
  ELSE IF journal[1].zpl # NullZpl
       THEN <<journal[1].zpl>> \o ProducedLabels(Tail(journal))
       ELSE ProducedLabels(Tail(journal))

\* C10 amended: the combined document of the bulk response is exactly the
\* labels that were produced (injection succeeded), in input order, joined
\* by single newlines.  It holds the label of every id listed in succeeded,
\* and also the label of an id listed in failed whose store update threw
\* after its label was produced; it holds no label of an id that failed
\* before its label was produced.
C10_Amended ==
  bulk.pc = "done" =>
    /\ Len(bulk.journal) = Len(bulk.req.amazon_order_ids)
    /\ \A i \in 1..Len(bulk.journal) :
         bulk.journal[i].succeeded => bulk.journal[i].zpl # NullZpl
    /\ bulk.resp.zpl = JoinLabels(ProducedLabels(bulk.journal))

\* a response after a label was produced and its store update threw, and a
\* different label was bought and stored
C10_Witness ==
  /\ bulk.pc = "done"
  /\ \E i, j \in 1..Len(bulk.journal) :
       /\ ~bulk.journal[i].succeeded
       /\ bulk.journal[i].zpl # NullZpl
       /\ bulk.journal[j].succeeded
       /\ bulk.journal[j].zpl # bulk.journal[i].zpl
  /\ Len(bulk.resp.failed) = 1
  /\ bulk.resp.failed[1].error = <<ERR_DB>>

\* ------------------------------------------------------------------------
\* Properties of the validator and the injector (checked under SpecZpl)
\* ------------------------------------------------------------------------

ZplValidated == zplCall.pc \in {"validated", "injected", "done"}
ZplInjected == zplCall.pc \in {"injected", "done"}
ZplDryRan == zplCall.pc = "done"

\* x is an element of seq
ElemOf(x, seq) == \E i \in 1..Len(seq) : seq[i] = x

\* facts about the markup of the call, read off the markup itself
HasXA == Includes(zplCall.zpl, XA)
HasXZ == Includes(zplCall.zpl, XZ)
Blank == \A i \in 1..Len(zplCall.zpl) : zplCall.zpl[i] \in {" ", "\n", "\t"}
EndBeforeStart ==
  /\ HasXA
  /\ HasXZ
  /\ \A i, j \in 1..Len(zplCall.zpl) :
       (MatchAt(zplCall.zpl, XZ, i) /\ MatchAt(zplCall.zpl, XA, j)) => i < j

\* the coordinates the call resolves to
CallX == IF zplCall.x >= 0 THEN zplCall.x ELSE ZPL_INJECT_X
CallY == IF zplCall.y >= 0 THEN zplCall.y ELSE ZPL_INJECT_Y
DeclaredWidth == zplCall.validation.meta.printWidth
DeclaredLength == zplCall.validation.meta.labelLength

\* the injector refused and returned its input
Refused(r) == ~r.success /\ r.zpl = zplCall.zpl

\* C13 as stated: for every markup without ^XA (without ^XZ) validateZpl
\* returns ok = false with the 'Missing ^XA' ('Missing ^XZ') error, and
\* injectSkuToZpl returns success = false with the markup equal to its input.
C13_AsStated ==
  /\ (ZplValidated /\ ~HasXA) =>
       ~zplCall.validation.ok /\ ElemOf(ERR_NO_XA, zplCall.validation.errors)
  /\ (ZplValidated /\ ~HasXZ) =>
       ~zplCall.validation.ok /\ ElemOf(ERR_NO_XZ, zplCall.validation.errors)
  /\ (ZplInjected /\ (~HasXA \/ ~HasXZ)) => Refused(zplCall.result)

\* C13 amended: for every markup without ^XA or without ^XZ validateZpl
\* returns ok = false and injectSkuToZpl returns success = false with the
\* markup equal to its input; when the markup is not blank the errors hold
\* 'Missing ^XA' (no ^XA) and 'Missing ^XZ' (no ^XZ); a blank markup gets
\* the single error 'ZPL payload is empty.'.
C13_Amended ==
  /\ (ZplValidated /\ (~HasXA \/ ~HasXZ)) => ~zplCall.validation.ok
  /\ (ZplValidated /\ ~Blank /\ ~HasXA) => ElemOf(ERR_NO_XA, zplCall.validation.errors)
  /\ (ZplValidated /\ ~Blank /\ ~HasXZ) => ElemOf(ERR_NO_XZ, zplCall.validation.errors)
  /\ (ZplValidated /\ Blank) => zplCall.validation.errors = <<ERR_EMPTY>>
  /\ (ZplInjected /\ (~HasXA \/ ~HasXZ)) => Refused(zplCall.result)

\* a markup with a start marker and content but no end marker was refused
C13_Witness ==
  /\ ZplInjected
  /\ HasXA /\ ~HasXZ /\ Len(zplCall.zpl) > 3
  /\ zplCall.validation.errors = <<ERR_NO_XZ>>
  /\ Refused(zplCall.result)
  /\ zplCall.result.error = <<ERR_NO_XZ>>

\* C14: when validateZpl accepts the markup and the box at the resolved
\* coordinates lies within the declared print width and label length, the
\* injection (not a dry run) succeeds and its output validates with ok =
\* true; for an accepted markup the injection never fails with a
\* validation error, only with a bounds error.
C14_InjectionKeepsValid ==
  ZplInjected =>
    /\ (/\ zplCall.validation.ok
        /\ DeclaredWidth # NoNumber /\ CallX + ZPL_INJECT_BOX_WIDTH <= DeclaredWidth
        /\ DeclaredLength # NoNumber /\ CallY + ZPL_INJECT_BOX_HEIGHT <= DeclaredLength)
         => zplCall.result.success /\ validateZpl(zplCall.result.zpl).ok
    /\ (zplCall.validation.ok /\ zplCall.result.success)
         => validateZpl(zplCall.result.zpl).ok
    /\ (zplCall.validation.ok /\ ~zplCall.result.success)
         => zplCall.result.error[1] \in {ERR_WIDTH, ERR_LENGTH}

\* a label declaring width 800 and length 1160 was injected at (100, 1100)
C14_Witness ==
  /\ ZplInjected
  /\ zplCall.zpl = XA \o PW800 \o LL1160 \o XZ
  /\ zplCall.x = 100 /\ zplCall.y = NoNumber
  /\ zplCall.result.success
  /\ Len(zplCall.result.zpl) > Len(zplCall.zpl)

\* C15: when the label declares a print width PW and x + 700 > PW, or a
\* label length LL and y + 60 > LL, injectSkuToZpl fails and returns the
\* original markup; when the markup is accepted, x + 700 = PW and
\* y + 60 = LL, it does not fail.
C15_BoundsCheck ==
  ZplInjected =>
    /\ (\/ (DeclaredWidth # NoNumber /\ CallX + 700 > DeclaredWidth)
        \/ (DeclaredLength # NoNumber /\ CallY + 60 > DeclaredLength))
         => Refused(zplCall.result)
    /\ (/\ zplCall.validation.ok
        /\ CallX + 700 = DeclaredWidth
        /\ CallY + 60 = DeclaredLength)
         => zplCall.result.success

\* print width 800 and x = 500: refused, 1200 > 800
C15_Witness ==
  /\ ZplInjected
  /\ zplCall.validation.ok
  /\ DeclaredWidth = 800 /\ zplCall.x = 500
  /\ Refused(zplCall.result)
  /\ zplCall.result.error = <<ERR_WIDTH, <<"1","2","0","0">>, <<"8","0","0">>>>

\* the sku text and the quantity the block shows
ShownSku ==
  LET t == Trim(zplCall.sku) IN
  IF Len(t) = 0 THEN UNKNOWN_SKU
  ELSE IF Len(t) > 20 THEN SubSeq(t, 1, 17) \o <<".", ".", ".">>
  ELSE t
ShownQty == IF zplCall.quantity > 0 THEN zplCall.quantity ELSE 1

\* out is the markup with the whole two-line block and a newline inserted
WholeBlockInserted(out) ==
  \E k \in 0..Len(zplCall.zpl) :
    out = SubSeq(zplCall.zpl, 1, k)
            \o InjectionBlock(CallX, CallY, ShownSku, ShownQty) \o Newline
            \o SubSeq(zplCall.zpl, k + 1, Len(zplCall.zpl))

\* C16: a result with success = false carries the input markup, character
\* for character, and a non-empty reason; a result with success = true
\* carries the input markup (dry run) or the input markup with the whole
\* two-line block inserted; no other markup is ever returned.
C16_NoPartialMutation ==
  /\ ZplInjected =>
       IF zplCall.result.success
       THEN WholeBlockInserted(zplCall.result.zpl)
       ELSE zplCall.result.zpl = zplCall.zpl /\ Len(zplCall.result.error) > 0
  /\ ZplDryRan =>
       IF zplCall.dryResult.success
       THEN zplCall.dryResult.zpl = zplCall.zpl
       ELSE zplCall.dryResult.zpl = zplCall.zpl /\ Len(zplCall.dryResult.error) > 0

\* a label with two end markers was injected, and its dry run succeeded
C16_Witness ==
  /\ ZplDryRan
  /\ zplCall.zpl = XA \o XZ \o XZ
  /\ zplCall.result.success
  /\ zplCall.result.zpl # zplCall.zpl
  /\ zplCall.dryResult.success

\* the field data of the second line of the block
ShownField(skuText) ==
  <<"^","F","D"," ","S","K","U",":"," ">> \o skuText \o <<" "," ","Q","T","Y",":"," ">>

\* C17: the sku text of the injected block is the trimmed sku when that is
\* at most 20 characters long, and otherwise its first 17 characters
\* followed by '...', 20 characters in all; a long sku does not make the
\* injection fail.
C17_SkuTruncation ==
  ZplInjected =>
    /\ Len(ShownSku) <= 20
    /\ Len(Trim(zplCall.sku)) > 20 => Len(ShownSku) = 20
    /\ zplCall.result.success => Includes(zplCall.result.zpl, ShownField(ShownSku))
    /\ (/\ zplCall.validation.ok
        /\ ~(DeclaredWidth # NoNumber /\ CallX + 700 > DeclaredWidth)
        /\ ~(DeclaredLength # NoNumber /\ CallY + 60 > DeclaredLength))
         => zplCall.result.success

\* a sku of 23 characters (padded with blanks) was injected
C17_Witness ==
  /\ ZplInjected
  /\ zplCall.sku = SkuLong
  /\ zplCall.result.success
  /\ Includes(zplCall.result.zpl,
              ShownField(<<"A","B","C","D","E","F","G","H","I","J","K","L","M","N","O","P","Q",".",".",".">>))

\* C18: the dry run fails exactly when the real run fails, with the same
\* reason, and in every case returns the input markup.
C18_DryRun ==
  ZplDryRan =>
    /\ zplCall.dryResult.success = zplCall.result.success
    /\ zplCall.dryResult.error = zplCall.result.error
    /\ zplCall.dryResult.zpl = zplCall.zpl

\* a dry run on an accepted label was refused by the width check
C18_Witness ==
  /\ ZplDryRan
  /\ zplCall.validation.ok
  /\ ~zplCall.dryResult.success
  /\ zplCall.dryResult.error[1] = ERR_WIDTH

\* C19 as stated: validateZpl reports 'Missing ^XA' iff the markup has no
\* ^XA, 'Missing ^XZ' iff it has no ^XZ, and 'end before start' iff both
\* exist and the last ^XZ lies before the first ^XA.
C19_AsStated ==
  ZplValidated =>
    /\ ElemOf(ERR_NO_XA, zplCall.validation.errors) <=> ~HasXA
    /\ ElemOf(ERR_NO_XZ, zplCall.validation.errors) <=> ~HasXZ
    /\ ElemOf(ERR_ORDER, zplCall.validation.errors) <=> EndBeforeStart

\* C19 amended: for a markup that is not blank, validateZpl reports
\* 'Missing ^XA' iff the markup has no ^XA, 'Missing ^XZ' iff it has no ^XZ,
\* and 'end before start' iff both exist and the last ^XZ lies before the
\* first ^XA (with neither marker: both missing-marker errors); a blank
\* markup gets none of the three, only 'ZPL payload is empty.'.
C19_Amended ==
  /\ (ZplValidated /\ ~Blank) =>
       /\ ElemOf(ERR_NO_XA, zplCall.validation.errors) <=> ~HasXA
       /\ ElemOf(ERR_NO_XZ, zplCall.validation.errors) <=> ~HasXZ
       /\ ElemOf(ERR_ORDER, zplCall.validation.errors) <=> EndBeforeStart
       /\ (~HasXA /\ ~HasXZ) => zplCall.validation.errors = <<ERR_NO_XA, ERR_NO_XZ>>
  /\ (ZplValidated /\ Blank) => zplCall.validation.errors = <<ERR_EMPTY>>

\* a markup with content and neither marker got both errors
C19_Witness ==
  /\ ZplValidated
  /\ ~Blank /\ ~HasXA /\ ~HasXZ
  /\ zplCall.validation.errors = <<ERR_NO_XA, ERR_NO_XZ>>

\* C20: validateZpl returns ok = true iff its error list is empty, and that
\* is decided by the markers alone (not blank, ^XA and ^XZ present, the
\* last ^XZ not before the first ^XA): warnings never change ok.
C20_OkIffNoErrors ==
  ZplValidated =>
    /\ zplCall.validation.ok <=> Len(zplCall.validation.errors) = 0
    /\ zplCall.validation.ok <=> (~Blank /\ HasXA /\ HasXZ /\ ~EndBeforeStart)

\* an accepted markup with four warnings
C20_Witness ==
  /\ ZplValidated
  /\ zplCall.validation.ok
  /\ zplCall.validation.warnings =
       <<WARN_MULTI_XA, WARN_TRAILING, WARN_NO_PW, WARN_NO_LL>>

\* ------------------------------------------------------------------------
\* Properties of a purchase
\* ------------------------------------------------------------------------

\* a purchase of order id is at its UPDATE with this tracking id and label
UpdateInFlight(id, trackingId, zpl) ==
  \/ /\ buy.pc = "update"
     /\ buy.req.amazon_order_id = id
     /\ buy.trackingId = trackingId /\ buy.zpl = zpl
  \/ /\ bulk.pc = "update"
     /\ bulk.req.amazon_order_ids[bulk.idx] = id
     /\ bulk.trackingId = trackingId /\ bulk.zpl = zpl

\* a stored row carries a label exactly when it is LabelBought, and a
\* tracking id only when it is LabelBought
LabelWithStatus(row) ==
  /\ row.label_zpl # NullZpl <=> row.status = "LabelBought"
  /\ row.tracking_id # NoTracking => row.status = "LabelBought"

\* the step turns the row into the row of one purchase, or leaves its
\* purchase fields alone
PurchaseStep(id) ==
  LET a == orders[id]
      b == orders'[id]
  IN \/ /\ b.tracking_id = a.tracking_id
        /\ b.label_zpl = a.label_zpl
        /\ (b.status = "LabelBought") = (a.status = "LabelBought")
     \/ /\ b.status = "LabelBought"
        /\ UpdateInFlight(id, b.tracking_id, b.label_zpl)

\* C11: a purchase changes the status, the tracking id and the label markup
\* of an order together or not at all: every step either leaves the three
\* alone or sets the status to LabelBought with the tracking id and the
\* label of one purchase, and no stored order has the new status without a
\* label, or a label or tracking id without the new status.
C11_PurchaseIsAtomic ==
  /\ [](\A id \in DOMAIN orders : LabelWithStatus(orders[id]))
  /\ [][\A id \in (DOMAIN orders) \cap (DOMAIN orders') : PurchaseStep(id)]_vars

\* the UPDATE of a single purchase has just run on an order that was
\* Unshipped when the request arrived: the row holds the new status with
\* the label and the tracking id of that purchase
C11_Witness ==
  /\ buy.pc = "defaults"
  /\ buy.before # NoRow
  /\ buy.before.status = "Unshipped"
  /\ ContendedId \in DOMAIN orders
  /\ orders[ContendedId].status = "LabelBought"
  /\ orders[ContendedId].label_zpl = buy.zpl
  /\ orders[ContendedId].tracking_id = buy.trackingId

\* C12 as stated: whenever a single-order request answers with an error,
\* the stored row of the order is the row it had when the request arrived.
C12_AsStated ==
  (buy.pc = "done" /\ buy.resp.status >= 400) =>
    RowOf(orders, buy.req.amazon_order_id) = buy.before

\* ------------------------------------------------------------------------
\* Further properties of the validator
\* ------------------------------------------------------------------------

\* at least one character follows the three characters of the final ^XZ
ContentAfterFinalXZ ==
  \E i \in 1..Len(zplCall.zpl) :
    /\ MatchAt(zplCall.zpl, XZ, i)
    /\ \A j \in (i + 1)..Len(zplCall.zpl) : ~MatchAt(zplCall.zpl, XZ, j)
    /\ i + 2 < Len(zplCall.zpl)

\* C21 as stated: validateZpl emits the trailing-content warning exactly
\* when at least one character follows the final ^XZ; a markup that ends
\* with ^XZ gets no trailing-content warning.
C21_AsStated ==
  (ZplValidated /\ ~Blank) =>
    (ElemOf(WARN_TRAILING, zplCall.validation.warnings) <=> ContentAfterFinalXZ)

\* ------------------------------------------------------------------------
\* Further properties of sync (checked under SpecSync)
\* ------------------------------------------------------------------------

\* the step is the COMMIT of a sync that answers 200; in the state before
\* it the stored rows are those from before the request
SyncCommitStep ==
  sync.pc = "upsert" /\ sync'.pc = "done" /\ sync'.resp.status = 200

\* the positions of the fetched list whose id was not stored, was stored
\* with a status other than LabelBought, was stored as LabelBought
FetchedNew ==
  {i \in 1..Len(sync.orders) : sync.orders[i].amazon_order_id \notin DOMAIN orders}
FetchedOpen ==
  {i \in 1..Len(sync.orders) :
     /\ sync.orders[i].amazon_order_id \in DOMAIN orders
     /\ orders[sync.orders[i].amazon_order_id].status # "LabelBought"}
FetchedBought ==
  {i \in 1..Len(sync.orders) :
     /\ sync.orders[i].amazon_order_id \in DOMAIN orders
     /\ orders[sync.orders[i].amazon_order_id].status = "LabelBought"}

RowFrom(f, trackingId, zpl) ==
  [purchase_date |-> f.purchase_date,
   customer_name |-> f.customer_name,
   shipping_address |-> f.shipping_address,
   items |-> f.items,
   is_prime |-> f.is_prime,
   status |-> f.status,
   tracking_id |-> trackingId,
   label_zpl |-> zpl]

HasCost(s) == s.cost >= 0

\* C30 as stated: for every non-empty eligible list buyLabel goes on to
\* create the shipment with a service whose cost is less than or equal to
\* the cost of every service of the list that has one, a cost of 0 included.
C30_AsStated ==
  (labelCall.pc # "idle" /\ Len(labelCall.services) > 0) =>
    (labelCall.pc \in {"create", "settled"} =>
       \A i \in 1..Len(labelCall.services) :
         HasCost(labelCall.services[i]) =>
           /\ HasCost(labelCall.selected)
           /\ labelCall.selected.cost <= labelCall.services[i].cost)

\* ------------------------------------------------------------------------
\* Properties of reprint (checked under SpecReprint)
\* ------------------------------------------------------------------------

\* the stored label of an id, NullZpl when there is no row or no label
SavedLabel(id) == IF id \in DOMAIN orders THEN orders[id].label_zpl ELSE NullZpl

RECURSIVE IsSubsequence(_, _)
\* a can be obtained from b by dropping entries
IsSubsequence(a, b) ==
  IF Len(a) = 0 THEN TRUE
  ELSE IF Len(b) = 0 THEN FALSE
  ELSE IF a[1] = b[1] THEN IsSubsequence(Tail(a), Tail(b))
  ELSE IsSubsequence(a, Tail(b))

\* the ids of a list of entries
IdsOf(entries) == [i \in 1..Len(entries) |-> entries[i].amazon_order_id]

\* C22: reprint makes no remote call and never modifies the order store;
\* single reprint returns the stored label verbatim when present and 404
\* otherwise; bulk reprint records an unknown id or an id without a saved
\* label in failed, for that id only, goes on with the remaining ids, and
\* returns the saved labels of the succeeded ids joined in input order.
C22_Reprint ==
  /\ [][reprint' # reprint =>
          /\ orders' = orders /\ defaults' = defaults /\ tx' = tx
          /\ labelCall' = labelCall /\ rPc' = rPc /\ rOutcomes' = rOutcomes]_vars
  /\ []((reprint.pc = "done" /\ reprint.kind = "single") =>
          /\ reprint.resp.status = 200 =>
               /\ SavedLabel(reprint.orderId) # NullZpl
               /\ reprint.resp.body = SavedLabel(reprint.orderId)
          /\ SavedLabel(reprint.orderId) = NullZpl => reprint.resp.status >= 400)
  /\ []((reprint.pc = "done" /\ reprint.kind = "bulk" /\ Len(reprint.ids) > 0) =>
          /\ reprint.resp.status = 200
          /\ \A id \in ReprintOrderIds :
               /\ CountId(reprint.resp.succeeded, id) + CountId(reprint.resp.failed, id)
                    = CountInput(reprint.ids, Len(reprint.ids), id)
               /\ SavedLabel(id) = NullZpl => CountId(reprint.resp.succeeded, id) = 0
          /\ IsSubsequence(IdsOf(reprint.resp.succeeded), reprint.ids)
          /\ reprint.resp.zpl =
               JoinLabels([i \in 1..Len(reprint.resp.succeeded) |->
                             SavedLabel(reprint.resp.succeeded[i].amazon_order_id)]))

\* a bulk reprint of an unknown id between two bought orders returned both
\* labels, in input order, and one failure
C22_Witness ==
  /\ reprint.pc = "done"
  /\ reprint.kind = "bulk"
  /\ reprint.ids = <<2, 3, 1>>
  /\ IdsOf(reprint.resp.succeeded) = <<2, 1>>
  /\ IdsOf(reprint.resp.failed) = <<3>>
  /\ reprint.resp.failed[1].error = ERR_REPRINT_NOT_FOUND
  /\ orders[1].label_zpl # orders[2].label_zpl
  /\ reprint.resp.zpl = orders[2].label_zpl \o Newline \o orders[1].label_zpl


\* the single request was answered 400 by the validation
BuyRejected == buy.pc = "done" /\ buy.resp.status = 400

\* the bulk request was answered 400 by the validation
BulkRejected == bulk.pc = "done" /\ bulk.resp.status = 400

\* an id list with no entry, with more than fifty, or with an entry that is
\* not a non-empty string
BadIdList(ids) ==
  \/ Len(ids) = 0
  \/ Len(ids) > 50
  \/ \E i \in 1..Len(ids) : ids[i] \in {EmptyId, BlankId, NonStringId}

\* nothing was looked up, bought or written for the request
NoWorkDone ==
  /\ orders \in BuyStores
  /\ defaults = <<>>
  /\ buy.items = <<>> /\ buy.zpl = NullZpl /\ buy.trackingId = NoTracking
  /\ bulk.idx = 0 /\ bulk.journal = <<>>
  /\ bulk.succeeded = <<>> /\ bulk.failed = <<>> /\ bulk.combinedZpl = <<>>

\* C23: a purchase request that fails validation is rejected as a whole
\* before any work is done: it is answered 400 with no order lookup, no
\* remote call and no store write; a bulk id list that is empty, longer than
\* fifty or holds an entry that is not a non-empty string is rejected so even
\* when its other ids are valid.
C23_RejectedWhole ==
  /\ (buy.pc # "idle" /\ buy.req.amazon_order_id \in {EmptyId, BlankId, NonStringId})
       => BuyRejected
  /\ (bulk.pc # "idle" /\ BadIdList(bulk.req.amazon_order_ids)) => BulkRejected
  /\ (BuyRejected \/ BulkRejected) => NoWorkDone

C23_Witness ==
  /\ BulkRejected
  /\ bulk.req.amazon_order_ids = <<1, BlankId>>
  /\ 1 \in DOMAIN orders
  /\ bulk.resp.details = <<(<<ERR_BULK_ID, 1>>)>>
  /\ NoWorkDone

\* the largest value of each unit that converts to at most 150 lb
HeaviestIn(unit) ==
  IF unit = "oz" THEN 2400
  ELSE IF unit = "lb" THEN 150
  ELSE IF unit = "g" THEN 68038
  ELSE 68

\* a positive finite value in one of the four units, at most 150 lb
AcceptableWeight(w) ==
  /\ "value" \in DOMAIN w
  /\ w.value \notin {NaN, Infinity}
  /\ w.value > 0
  /\ w.unit \in {"oz", "lb", "g", "kg"}
  /\ w.value <= HeaviestIn(w.unit)

\* C24: with a valid order id and valid dimensions, the request is accepted
\* iff its weight value is a positive finite number, its unit is one of oz,
\* lb, g, kg, and the value in pounds is at most 150; a finite weight of a
\* known unit above 150 lb is refused with the exceeds-limit error.
C24_WeightValidation ==
  (/\ buy.pc # "idle"
   /\ buy.req.amazon_order_id > 0
   /\ buy.req.dimensions = PackageA.dimensions) =>
    /\ BuyRejected <=> ~AcceptableWeight(buy.req.weight)
    /\ buy.req.weight = [value |-> 200, unit |-> "lb"] =>
         buy.resp.details = <<(<<ERR_WEIGHT_LIMIT>>)>>
    /\ buy.req.weight \in {[value |-> 200, unit |-> "oz"],
                            [value |-> 2400, unit |-> "oz"],
                            [value |-> 150, unit |-> "lb"]} => ~BuyRejected

C24_Witness ==
  /\ buy.pc = "done"
  /\ buy.req.weight = [value |-> 2400, unit |-> "oz"]
  /\ buy.resp.status = 200


\* the skus whose ShippingDefaults record a purchase of these orders writes:
\* the one sku of each order with exactly one distinct sku
DefaultSkus(ids) ==
  UNION {DistinctSkus(orders[id].items) :
           id \in {k \in ids : Cardinality(DistinctSkus(orders[k].items)) = 1}}

\* the ShippingDefaults records are the request's package for these skus, and
\* nothing else
DefaultsAre(skus, req) ==
  /\ DOMAIN defaults = skus
  /\ \A k \in skus :
       defaults[k] = [weight |-> req.weight, dimensions |-> req.dimensions]

\* C25 (as stated; the bulk flow violates it): once a purchase is answered,
\* the ShippingDefaults record of the single sku of each successfully
\* purchased order holds the request's weight and dimensions, in the single
\* flow and for each succeeded id of a bulk purchase alike, and no record is
\* written for an order of zero or several distinct skus.
C25_AsStated ==
  /\ (buy.pc = "done" /\ buy.resp.status = 200) =>
       DefaultsAre(DefaultSkus({buy.req.amazon_order_id}), buy.req)
  /\ (bulk.pc = "done" /\ bulk.resp.status = 200) =>
       DefaultsAre(DefaultSkus({bulk.succeeded[i].amazon_order_id :
                                  i \in 1..Len(bulk.succeeded)}), bulk.req)


\* the kind of failure a buyLabel outcome stands for, "none" for a label
\* that was bought and injected
FailureKind(out, items, body) ==
  IF ~out.ok
  THEN (IF out.message = ERR_NO_SERVICES THEN "no eligible services"
        ELSE IF out.message \in {ERR_NO_SHIPMENT, ERR_NO_LABEL} THEN "data missing"
        ELSE "other")
  ELSE IF LabelFor(out, items, body).ok THEN "none" ELSE "injection rejected"

\* the outcomes that stand for one of the named failures
NamedFailures(items, body) ==
  {out \in PurchaseOutcomes :
     FailureKind(out, items, body)
       \in {"no eligible services", "data missing", "injection rejected"}}

\* the entry the bulk loop records for a failed outcome of the current id
FailedEntry(out) ==
  LET b == PushFailed(bulk, LabelFor(out, bulk.items, bulk.req.body).error)
  IN b.failed[Len(b.failed)]

\* C26 (as stated; the single flow violates it): when the remote call of a
\* purchase is due, failures of different kinds (no eligible services,
\* shipment or label data missing, injection rejected) are answered by
\* different responses, each different from the order-not-found response; in
\* the bulk loop each is recorded in failed under the current order id, with
\* different errors for different kinds.
C26_AsStated ==
  /\ buy.pc = "remote" =>
       \A o1 \in NamedFailures(buy.items, buy.req.body) :
         /\ BuyFailureResponse(LabelFor(o1, buy.items, buy.req.body)) # OrderNotFound
         /\ \A o2 \in NamedFailures(buy.items, buy.req.body) :
              FailureKind(o1, buy.items, buy.req.body)
                  # FailureKind(o2, buy.items, buy.req.body)
                => BuyFailureResponse(LabelFor(o1, buy.items, buy.req.body))
                     # BuyFailureResponse(LabelFor(o2, buy.items, buy.req.body))
  /\ bulk.pc = "remote" =>
       \A o1 \in NamedFailures(bulk.items, bulk.req.body) :
         /\ FailedEntry(o1).amazon_order_id = bulk.req.amazon_order_ids[bulk.idx]
         /\ FailedEntry(o1).error # <<ERR_ORDER_NOT_FOUND>>
         /\ \A o2 \in NamedFailures(bulk.items, bulk.req.body) :
              FailureKind(o1, bulk.items, bulk.req.body)
                  # FailureKind(o2, bulk.items, bulk.req.body)
                => FailedEntry(o1).error # FailedEntry(o2).error


\* the bulk loop is working on the id at position idx
BulkInFlight == bulk.pc \in {"select", "remote", "update"}

\* the ids before position idx are finished: each has its one entry in
\* succeeded or failed, and the row of each succeeded one is written
EarlierIdsFinished ==
  /\ bulk.idx \in 1..Len(bulk.req.amazon_order_ids)
  /\ Len(bulk.journal) = bulk.idx - 1
  /\ Len(bulk.succeeded) + Len(bulk.failed) = bulk.idx - 1
  /\ \A i \in 1..(bulk.idx - 1) :
       bulk.journal[i].succeeded =>
         /\ orders[bulk.req.amazon_order_ids[i]].status = "LabelBought"
         /\ \E j \in 1..Len(bulk.succeeded) :
              bulk.succeeded[j].amazon_order_id = bulk.req.amazon_order_ids[i]

\* C29: bulk purchase works on one id at a time in input order: while the
\* id at position idx is looked up, bought or stored, every earlier id is
\* finished (recorded, its row written) and no later id has been touched,
\* and the loop moves from position i to i + 1 only, starting with the
\* lookup, once the entry of position i is recorded.
C29_Sequential ==
  /\ [](BulkInFlight => EarlierIdsFinished)
  /\ [][bulk'.idx # bulk.idx =>
          \/ bulk.pc = "idle" /\ bulk'.idx = 1 /\ bulk'.pc = "select"
          \/ /\ BulkInFlight
             /\ bulk'.idx = bulk.idx + 1
             /\ bulk'.pc = "select"
             /\ Len(bulk'.journal) = bulk.idx]_vars

C29_Witness ==
  /\ bulk.pc = "remote"
  /\ bulk.idx = 3
  /\ bulk.req.amazon_order_ids = <<1, 2, 1>>
  /\ IdsOf(bulk.succeeded) = <<1>>
  /\ IdsOf(bulk.failed) = <<2>>
  /\ orders[1].label_zpl = bulk.journal[1].zpl


\* the call has returned or thrown
RetrySettled == rPc \in {"returned", "thrown"}

\* every invocation but the last one failed with a retryable error
OnlyRetryableBefore(n) ==
  \A i \in 1..(n - 1) : rOutcomes[i][1] = "error" /\ rRetryable[i]

\* each finished attempt but the current one has its retry event and its
\* elapsed delay, in order
RetriesPaced ==
  /\ Len(rSlept) = attempt
  /\ Len(rEvents) = IF rPc = "sleep" THEN attempt + 1 ELSE attempt
  /\ \A i \in 1..Len(rSlept) :
       rEvents[i].retryNumber = i /\ rSlept[i] = rEvents[i].delayMs

\* C31: when every invocation of the operation settles, retryWithBackoff
\* settles; it invokes the operation at most maxRetries + 1 times, never
\* again after a success or a non-retryable failure, and invocation n + 1
\* starts only after the retry event of attempt n was emitted and its delay
\* has elapsed.
C31_Terminates ==
  /\ <>RetrySettled
  /\ [](Len(rOutcomes) <= rMaxRetries + 1)
  /\ [](OnlyRetryableBefore(Len(rOutcomes)))
  /\ [](rPc = "call" => Len(rOutcomes) = attempt)
  /\ []RetriesPaced
  /\ [][rOutcomes' # rOutcomes =>
          /\ rPc = "call"
          /\ Len(rOutcomes') = Len(rOutcomes) + 1
          /\ Len(rSlept) = Len(rOutcomes) /\ Len(rEvents) = Len(rOutcomes)]_vars

C31_Witness ==
  /\ rPc = "thrown"
  /\ rMaxRetries = DefaultMaxRetries
  /\ Len(rOutcomes) = DefaultMaxRetries + 1
  /\ rSlept = <<1000, 2000, 4000>>


\* the 1-based position of the last ^XZ of seq, 0 when there is none
FinalXZ(seq) ==
  IF Includes(seq, XZ)
  THEN CHOOSE i \in 1..Len(seq) :
         MatchAt(seq, XZ, i) /\ \A j \in (i + 1)..Len(seq) : ~MatchAt(seq, XZ, j)
  ELSE 0

\* what the injection of the call inserts: the two lines and a newline
Inserted == InjectionBlock(CallX, CallY, ShownSku, ShownQty) \o Newline

\* C32: a successful injection that is no dry run returns the input with the
\* two-line block and a newline inserted immediately before the final ^XZ
\* and nothing else changed: cutting the inserted text out of the output
\* gives the input back, and the final ^XZ of the input, now right after the
\* inserted text, is the last ^XZ of the output.
C32_SpliceBeforeFinalXZ ==
  (ZplInjected /\ zplCall.result.success) =>
    LET e == FinalXZ(zplCall.zpl)
        out == zplCall.result.zpl
    IN /\ e > 0
       /\ out = SubSeq(zplCall.zpl, 1, e - 1) \o Inserted
                  \o SubSeq(zplCall.zpl, e, Len(zplCall.zpl))
       /\ SubSeq(out, 1, e - 1) \o SubSeq(out, e + Len(Inserted), Len(out))
            = zplCall.zpl
       /\ FinalXZ(out) = e + Len(Inserted)

\* a label with two end markers and a sku that holds markers
C32_Witness ==
  /\ ZplInjected
  /\ zplCall.zpl = XA \o XZ \o XZ
  /\ zplCall.sku = SkuMarkers
  /\ zplCall.result.success
  /\ FinalXZ(zplCall.result.zpl) = Len(zplCall.result.zpl) - 2

\* C33: for an accepted label that declares no print width the x bound is
\* not checked, and for one that declares no label length the y bound is
\* not checked: the injection succeeds whenever each declared bound is
\* respected, so with neither declaration it succeeds for every
\* non-negative (x, y), however large.
C33_NoDeclarationNoCheck ==
  (ZplInjected /\ zplCall.validation.ok) =>
    /\ (/\ DeclaredWidth = NoNumber
        /\ DeclaredLength # NoNumber => CallY + 60 <= DeclaredLength)
         => zplCall.result.success
    /\ (/\ DeclaredLength = NoNumber
        /\ DeclaredWidth # NoNumber => CallX + 700 <= DeclaredWidth)
         => zplCall.result.success

\* a label without declarations injected at (100000, 100000)
C33_Witness ==
  /\ ZplInjected
  /\ zplCall.zpl = XA \o XZ
  /\ zplCall.x = 100000 /\ zplCall.y = 100000
  /\ zplCall.result.success
  /\ zplCall.result.zpl # zplCall.zpl

\* C38 (as stated; the code violates it): a successful injection returns a
\* markup with as many ^XA markers and as many ^XZ markers as its input,
\* whatever the sku.
C38_AsStated ==
  (ZplInjected /\ zplCall.result.success) =>
    /\ countOccurrences(zplCall.result.zpl, XA) = countOccurrences(zplCall.zpl, XA)
    /\ countOccurrences(zplCall.result.zpl, XZ) = countOccurrences(zplCall.zpl, XZ)


\* the sync in progress follows a successful one and fetched the same list
SameAsLastSync == "last" \in DOMAIN sync /\ sync.orders = sync.last

\* C34: when a sync that follows a successful sync with no request in
\* between fetched the same orders, its COMMIT leaves the order store as the
\* first sync left it, and it reports inserted = 0.
C34_SyncIdempotent ==
  [][(SyncCommitStep /\ SameAsLastSync) =>
       /\ orders' = syncBase
       /\ sync'.resp.inserted = 0
       /\ sync'.resp.synced = Len(sync.last)]_vars

\* the second sync of a list that holds a bought and an open order is done
C34_Witness ==
  /\ sync.pc = "done"
  /\ SameAsLastSync
  /\ Len(sync.orders) = 2
  /\ sync.resp.status = 200
  /\ sync.resp.updated = 1
  /\ \E id \in DOMAIN orders : orders[id].status = "LabelBought"


\* every stored order with status LabelBought has a label
BoughtHaveLabels ==
  \A id \in DOMAIN orders :
    orders[id].status = "LabelBought" => orders[id].label_zpl # NullZpl

\* the step answers a single reprint of an order stored as LabelBought
ReprintOfBought ==
  /\ reprint.pc = "select" /\ reprint.kind = "single"
  /\ reprint'.pc = "done"
  /\ reprint.orderId \in DOMAIN orders
  /\ orders[reprint.orderId].status = "LabelBought"

\* C36: in every reachable state of the order store an order with status
\* LabelBought has a non-empty label markup, and a reprint of an order that
\* is LabelBought is never answered 'no saved label' (nor 'not found'):
\* it returns the stored label unless the query itself fails.
C36_BoughtHasLabel ==
  /\ []BoughtHaveLabels
  /\ [][ReprintOfBought =>
          \/ /\ reprint'.resp.status = 200
             /\ reprint'.resp.body = orders[reprint.orderId].label_zpl
          \/ reprint'.resp = [status |-> 500, error |-> ERR_REPRINT_FAILED]]_vars

\* a synced and then bought order was reprinted
C36_Witness ==
  /\ reprint.pc = "done"
  /\ reprint.resp.status = 200
  /\ orders[reprint.orderId].status = "LabelBought"
  /\ reprint.resp.body = orders[reprint.orderId].label_zpl
  /\ Len(reprint.resp.body) > 0


\* the text that opens the second line of the metadata block
MetadataText == <<"^","F","D"," ","S","K","U",":"," ">>

\* C35 (as stated; a dry-run request violates it): every label markup
\* stored with status LabelBought holds the SKU/QTY metadata block, also
\* when the purchase request set zpl_inject_dry_run.
C35_AsStated ==
  \A id \in DOMAIN orders :
    orders[id].status = "LabelBought" => Includes(orders[id].label_zpl, MetadataText)

\* the row of order id with the three purchase columns set
Purchased(id, trackingId, zpl) ==
  [orders[id] EXCEPT !.status = "LabelBought", !.tracking_id = trackingId,
                     !.label_zpl = zpl]

\* C37: the purchase flow does not look at the stored status: the lookup of
\* a stored order is followed by the remote purchase whatever its status
\* (or by the failure of the query), and the UPDATE of a purchase replaces
\* tracking id and label of the row by the new ones and sets LabelBought,
\* also when the row is LabelBought already; the answer of a purchase of an
\* order that was LabelBought carries the tracking id of a new shipment.
C37_RepurchaseReplaces ==
  /\ [][(buy.pc = "select" /\ buy'.pc # "select"
           /\ buy.req.amazon_order_id \in DOMAIN orders) =>
          \/ buy'.pc = "remote"
          \/ buy'.resp = [status |-> 500, error |-> <<ERR_BUY_FAILED>>]]_vars
  /\ [][(bulk.pc = "select" /\ bulk' # bulk
           /\ bulk.req.amazon_order_ids[bulk.idx] \in DOMAIN orders) =>
          \/ bulk'.pc = "remote" /\ bulk'.idx = bulk.idx
          \/ bulk'.failed = Append(bulk.failed,
                 [amazon_order_id |-> bulk.req.amazon_order_ids[bulk.idx],
                  error |-> <<ERR_DB>>])]_vars
  /\ [][(buy.pc = "update"
           /\ (buy'.pc = "defaults" \/ (buy'.pc = "done" /\ buy'.resp.status = 200))) =>
          orders' = [orders EXCEPT ![buy.req.amazon_order_id] =
                       Purchased(buy.req.amazon_order_id, buy.trackingId, buy.zpl)]]_vars
  /\ [][(bulk.pc = "update" /\ Len(bulk'.succeeded) > Len(bulk.succeeded)) =>
          orders' = [orders EXCEPT ![bulk.req.amazon_order_ids[bulk.idx]] =
                       Purchased(bulk.req.amazon_order_ids[bulk.idx],
                                 bulk.trackingId, bulk.zpl)]]_vars
  /\ []((buy.pc = "done" /\ buy.resp.status = 200
           /\ buy.before # NoRow /\ buy.before.status = "LabelBought") =>
          /\ buy.resp.trackingId = "TRK-1"
          /\ orders[buy.req.amazon_order_id].status = "LabelBought"
          /\ orders[buy.req.amazon_order_id].tracking_id = "TRK-1"
          /\ orders[buy.req.amazon_order_id].label_zpl = buy.resp.zpl)

\* an order stored as LabelBought with tracking id TRK-0 was bought again
C37_Witness ==
  /\ buy.pc = "done"
  /\ buy.resp.status = 200
  /\ buy.before # NoRow
  /\ buy.before.status = "LabelBought"
  /\ buy.before.tracking_id = "TRK-0"
  /\ orders[buy.req.amazon_order_id].tracking_id = "TRK-1"
  /\ orders[buy.req.amazon_order_id].label_zpl = buy.resp.zpl

=============================================================================
